---- MODULE Spec2Model ----
(***************************************************************************)
(* Model of the metadata-reconciliation and column-projection engine of    *)
(* parquet-viewer: the ColumnMetadata table and its administration         *)
(* (services/admin_service.py, api/admin_routes.py), the projected data    *)
(* query (services/file_service.py) and the FileMetadata / MetadataHistory *)
(* tables (services/metadata_service.py).                                  *)
(*                                                                         *)
(* Every request handler is one atomic action (requests are modelled one   *)
(* at a time); `last` holds the response of the handler that ran last and  *)
(* `tick` flips on every step, so that no step of the program is a         *)
(* stuttering step and action properties see every handler call.           *)
(*                                                                         *)
(* Not modelled: the data_type / created_at / updated_at columns, the      *)
(* search_term and sort_column arguments of the data query (left at their  *)
(* defaults, None), error message texts.                                   *)
(***************************************************************************)
EXTENDS Integers, Sequences, FiniteSets, TLC

VARIABLES
    parquet_dir,             \* settings.PARQUET_DIR: filename -> physical file or NoFile
    column_metadata,         \* table column_metadata: a set of rows
    column_metadata_id_seq,  \* last value of the serial primary key of column_metadata
    file_metadata,           \* table file_metadata: a set of rows
    file_metadata_id_seq,    \* last value of the serial primary key of file_metadata
    metadata_history,        \* table metadata_history: rows in insertion order
    last,                    \* the response of the last request
    tick,                    \* parity of the number of requests served
    in_flight,               \* per client: the request that is between two awaits
    db_sessions,             \* per client: the AsyncSession of its request
    powerbi_projects,        \* table power_bi_projects: rows in id order
    powerbi_exports,         \* table power_bi_exports: rows in id order
    background_tasks,        \* the tasks the server runs after a response
    duckdb_conn,             \* db_manager.duckdb_conn and who executes a statement on it
    event_loop               \* the coroutine the event loop is running, or "free"

vars == <<parquet_dir, column_metadata, column_metadata_id_seq, file_metadata,
          file_metadata_id_seq, metadata_history, last, tick, in_flight,
          db_sessions, powerbi_projects, powerbi_exports, background_tasks,
          duckdb_conn, event_loop>>

----------------------------------------------------------------------------
(* Bounds and value domains *)

MaxSortOrder == 1     \* sort_order values a client sends are 0..MaxSortOrder
MaxItems == 2         \* longest bulk-update list
MaxRows == 4          \* most rows in a physical file
MaxPage == 3          \* highest page requested
MaxPageSize == 2      \* largest page_size requested
MaxHistory == 2       \* most metadata_history rows kept in a run
MaxFileId == 2        \* most file_metadata rows ever created in a run

NULL == "NULL"                    \* Python None / SQL NULL
\* a filename with no file on disk: file_path.exists() is False
NoFile == [exists |-> FALSE, columns |-> <<>>, rows |-> 0, mtime |-> 0]
TooLong == "<256 characters>"     \* a string that does not fit String(255)

Files == {"f1", "f2"}             \* filenames; only f1 is ever on disk
ManagedFiles == {"f1"}            \* filenames the admin writes column metadata for
ColNames == <<"a", "b">>          \* column names, in lexicographic order
Cols == {ColNames[i] : i \in 1..Len(ColNames)}

\* lexicographic rank of a column name (ORDER BY original_column_name)
NameRank(c) == CHOOSE i \in 1..Len(ColNames) : ColNames[i] = c

\* the display name an admin sets on column c: a custom name on a, None on b
\* (a nullable column: the display then falls back to the original name)
Custom(c) == IF c = "a" THEN "Col A" ELSE NULL

\* the physical schemas of f1: written with columns b, a (not in name order),
\* later rewritten without column a, and back
Schemas == {<<"b", "a">>, <<"b">>}

EmptyDict == <<>>

\* the clients whose requests can overlap
Clients == {"c1", "c2"}

\* DatabaseManager.__init__: no DuckDB connection yet, handle 0 is None
NoConnection == [handle |-> 0, executing |-> {}]

\* a client with no request in flight
Idle == [op |-> "idle"]

\* a client whose request has not acquired a session
NoSession == [state |-> "none"]

Range(s) == {s[i] : i \in 1..Len(s)}

Min(x, y) == IF x < y THEN x ELSE y

\* dict.get(key, default)
Get(d, k, default) == IF k \in DOMAIN d THEN d[k] ELSE default

\* the dict d without key k (dict.pop)
Without(d, k) == [x \in (DOMAIN d) \ {k} |-> d[x]]

----------------------------------------------------------------------------
(* The column_metadata table *)

ColumnMetadataFields ==
    {"id", "filename", "original_column_name", "display_name", "description",
     "is_visible", "sort_order"}

\* the rows of a file
RowsOf(rows, filename) == {r \in rows : r.filename = filename}

\* the rows SELECT ... WHERE filename = :f AND original_column_name = :c returns
RowsOfKey(rows, filename, col) ==
    {r \in rows : r.filename = filename /\ r.original_column_name = col}

\* display_name is String(255): a longer value is rejected by the store
StoreRejects(row) == row.display_name = TooLong

\* uq_filename_column and the primary key
UniqueViolation(rows, row) ==
    \E r \in rows :
        \/ r.id = row.id
        \/ r.filename = row.filename /\ r.original_column_name = row.original_column_name

\* a PUT that replaces the row: fields the request leaves out fall back to defaults
ApplyUpdatesReplacing(row, updates) ==
    [k \in ColumnMetadataFields |->
        IF k \in DOMAIN updates THEN updates[k]
        ELSE IF k = "display_name" THEN row.original_column_name
        ELSE IF k = "description" THEN NULL
        ELSE IF k = "is_visible" THEN TRUE
        ELSE IF k = "sort_order" THEN 0
        ELSE row[k]]

\* for field, value in updates.items(): if hasattr(existing, field): setattr(...)
ApplyUpdates(row, updates) ==
    [k \in ColumnMetadataFields |-> IF k \in DOMAIN updates THEN updates[k] ELSE row[k]]

\* rows ordered by (sort_order, original_column_name), as a sequence
RowBefore(r, s) ==
    \/ r.sort_order < s.sort_order
    \/ r.sort_order = s.sort_order
       /\ NameRank(r.original_column_name) < NameRank(s.original_column_name)

RECURSIVE OrderRows(_)
OrderRows(rows) ==
    IF rows = {} THEN <<>>
    ELSE LET first == CHOOSE r \in rows : \A s \in rows \ {r} : ~RowBefore(s, r)
         IN <<first>> \o OrderRows(rows \ {first})

----------------------------------------------------------------------------
(* AdminService.update_column_metadata *)

update_column_metadata(rows, seq, filename, original_column_name, updates) ==
    LET found == RowsOfKey(rows, filename, original_column_name)
        failed == [rows |-> rows, seq |-> seq, raised |-> TRUE,
                   action |-> "error", metadata_id |-> 0]
    IN  IF found # {}
        THEN LET existing == CHOOSE r \in found : TRUE
                 changed == ApplyUpdates(existing, updates)
             IN  IF \/ Cardinality(found) > 1
                    \/ StoreRejects(changed)
                    \/ UniqueViolation(rows \ {existing}, changed)
                 THEN failed
                 ELSE [rows |-> (rows \ {existing}) \cup {changed}, seq |-> seq,
                       raised |-> FALSE, action |-> "updated",
                       metadata_id |-> changed.id]
        ELSE LET new_metadata ==
                     [id |-> seq + 1,
                      filename |-> filename,
                      original_column_name |-> original_column_name,
                      display_name |-> Get(updates, "display_name", original_column_name),
                      description |-> Get(updates, "description", NULL),
                      is_visible |-> Get(updates, "is_visible", TRUE),
                      sort_order |-> Get(updates, "sort_order", 0)]
             IN  IF StoreRejects(new_metadata) \/ UniqueViolation(rows, new_metadata)
                 THEN failed
                 ELSE [rows |-> rows \cup {new_metadata}, seq |-> seq + 1,
                       raised |-> FALSE, action |-> "created",
                       metadata_id |-> new_metadata.id]

----------------------------------------------------------------------------
(* AdminService.bulk_update_columns *)

\* one item of the list: results after the item, from results before it
bulk_update_item(acc, filename, update) ==
    IF "original_column_name" \notin DOMAIN update
    THEN \* update.pop raises KeyError: caught, recorded
         [acc EXCEPT !.errors = Append(@, "unknown")]
    ELSE LET original_name == update["original_column_name"]
             r == update_column_metadata(acc.rows, acc.seq, filename, original_name,
                                         Without(update, "original_column_name"))
         IN  IF r.raised
             THEN \* the key was popped before the call: the item is reported as "unknown"
                  [acc EXCEPT !.errors = Append(@, "unknown")]
             ELSE [rows |-> r.rows, seq |-> r.seq,
                   updated |-> IF r.action = "updated" THEN acc.updated + 1 ELSE acc.updated,
                   created |-> IF r.action = "updated" THEN acc.created ELSE acc.created + 1,
                   errors |-> acc.errors]

\* a loop that stops at the first item that fails
RECURSIVE bulk_update_loop_aborting(_, _, _)
bulk_update_loop_aborting(acc, filename, columns_updates) ==
    IF columns_updates = <<>> THEN acc
    ELSE LET after == bulk_update_item(acc, filename, Head(columns_updates))
         IN  IF Len(after.errors) > Len(acc.errors) THEN after
             ELSE bulk_update_loop_aborting(after, filename, Tail(columns_updates))

RECURSIVE bulk_update_loop(_, _, _)
bulk_update_loop(acc, filename, columns_updates) ==
    IF columns_updates = <<>> THEN acc
    ELSE bulk_update_loop(bulk_update_item(acc, filename, Head(columns_updates)),
                          filename, Tail(columns_updates))

bulk_update_columns(rows, seq, filename, columns_updates) ==
    bulk_update_loop([rows |-> rows, seq |-> seq, updated |-> 0, created |-> 0,
                      errors |-> <<>>],
                     filename, columns_updates)

----------------------------------------------------------------------------
(* AdminService.reset_column_metadata *)

reset_column_metadata(rows, filename, original_column_name) ==
    LET found == RowsOfKey(rows, filename, original_column_name)
    IN  IF found # {}
        THEN LET metadata == CHOOSE r \in found : TRUE
                 changed == [metadata EXCEPT !.display_name = original_column_name,
                                             !.description = NULL,
                                             !.is_visible = TRUE]
             IN  [rows |-> (rows \ {metadata}) \cup {changed}, action |-> "reset"]
        ELSE [rows |-> rows, action |-> "no_change"]

----------------------------------------------------------------------------
(* AdminService.sync_file_columns_metadata *)

\* the rows sync adds: one per physical column without a row
RECURSIVE sync_new_rows(_, _, _, _, _)
sync_new_rows(schema, index, filename, existing_columns, seq) ==
    IF index > Len(schema) THEN {}
    ELSE IF schema[index] \in existing_columns
         THEN sync_new_rows(schema, index + 1, filename, existing_columns, seq)
         ELSE {[id |-> seq + 1,
                filename |-> filename,
                original_column_name |-> schema[index],
                display_name |-> schema[index],
                description |-> NULL,
                is_visible |-> TRUE,
                \* enumerate() is 0-based over the whole schema
                sort_order |-> Cardinality(existing_columns) + (index - 1)]}
              \cup sync_new_rows(schema, index + 1, filename, existing_columns, seq + 1)

\* a sync that deletes the rows of the columns that left the file
delete_removed(rows, filename, removed_columns) ==
    {r \in rows : ~(r.filename = filename /\ r.original_column_name \in removed_columns)}

\* a sync that leaves the rows of the columns that left the file as they are
keep_removed(rows, filename, removed_columns) == rows

\* a sync whose UPDATE leaves out the filename condition
hide_removed_in_every_file(rows, filename, removed_columns) ==
    {IF r.original_column_name \in removed_columns
     THEN [r EXCEPT !.is_visible = FALSE] ELSE r : r \in rows}

\* UPDATE column_metadata SET is_visible = false for the columns that left the file
hide_removed(rows, filename, removed_columns) ==
    {IF r.filename = filename /\ r.original_column_name \in removed_columns
     THEN [r EXCEPT !.is_visible = FALSE] ELSE r : r \in rows}

sync_file_columns_metadata(dir, rows, seq, filename) ==
    IF ~dir[filename].exists
    THEN \* FileNotFoundError, caught by the method's own except Exception
         [rows |-> rows, seq |-> seq, raised |-> "Exception",
          created |-> 0, updated |-> 0, hidden |-> 0, total_current_columns |-> 0]
    ELSE LET schema == dir[filename].columns
             current_columns == Range(schema)
             existing_columns == {r.original_column_name : r \in RowsOf(rows, filename)}
             added == sync_new_rows(schema, 1, filename, existing_columns, seq)
             removed_columns == existing_columns \ current_columns
         IN  [rows |-> hide_removed(rows, filename, removed_columns) \cup added,
              seq |-> seq + Cardinality(added),
              raised |-> NULL,
              created |-> Cardinality(added),
              updated |-> 0,
              hidden |-> Cardinality(removed_columns),
              total_current_columns |-> Cardinality(current_columns)]

----------------------------------------------------------------------------
(* AdminService.get_file_columns_admin and get_columns_display_schema *)

\* the same sort with reverse=True
RECURSIVE sorted_descending(_)
sorted_descending(columns_info) ==
    IF columns_info = <<>> THEN <<>>
    ELSE LET n == Len(columns_info)
             i == CHOOSE k \in 1..n :
                      \A j \in 1..n : columns_info[k].sort_order >= columns_info[j].sort_order
             rest == [j \in 1..(n - 1) |->
                         IF j < i THEN columns_info[j] ELSE columns_info[j + 1]]
         IN  <<columns_info[i]>> \o sorted_descending(rest)

\* sorted(columns_info, key=lambda x: x["sort_order"]): a stable sort
RECURSIVE sorted_by_sort_order(_)
sorted_by_sort_order(columns_info) ==
    IF columns_info = <<>> THEN <<>>
    ELSE LET n == Len(columns_info)
             i == CHOOSE k \in 1..n :
                      /\ \A j \in 1..n : columns_info[k].sort_order <= columns_info[j].sort_order
                      /\ \A j \in 1..(k - 1) :
                             columns_info[j].sort_order > columns_info[k].sort_order
             rest == [j \in 1..(n - 1) |->
                         IF j < i THEN columns_info[j] ELSE columns_info[j + 1]]
         IN  <<columns_info[i]>> \o sorted_by_sort_order(rest)

get_file_columns_admin(dir, rows, filename) ==
    IF ~dir[filename].exists
    THEN [raised |-> "Exception", columns |-> <<>>, total_columns |-> 0]
    ELSE LET schema == dir[filename].columns
             info(index) ==
                 LET col_name == schema[index]
                     found == RowsOfKey(rows, filename, col_name)
                 IN  IF found # {}
                     THEN LET metadata == CHOOSE r \in found : TRUE
                          IN  [original_name |-> col_name,
                               display_name |-> metadata.display_name,
                               description |-> metadata.description,
                               is_visible |-> metadata.is_visible,
                               sort_order |-> metadata.sort_order,
                               has_metadata |-> TRUE,
                               metadata_id |-> metadata.id]
                     ELSE [original_name |-> col_name,
                           display_name |-> col_name,
                           description |-> "",
                           is_visible |-> TRUE,
                           sort_order |-> index - 1,
                           has_metadata |-> FALSE,
                           metadata_id |-> 0]
             columns_info == [index \in 1..Len(schema) |-> info(index)]
         IN  [raised |-> NULL,
              columns |-> sorted_by_sort_order(columns_info),
              total_columns |-> Len(columns_info)]

get_columns_display_schema(dir, rows, filename) ==
    LET metadata_list == OrderRows({r \in RowsOf(rows, filename) : r.is_visible})
    IN  IF metadata_list = <<>>
        THEN LET columns_info == get_file_columns_admin(dir, rows, filename)
                 IsVisible(col) == col.is_visible
                 shown == SelectSeq(columns_info.columns, IsVisible)
             IN  IF columns_info.raised # NULL
                 THEN [raised |-> "Exception", has_custom_names |-> FALSE, columns |-> <<>>]
                 ELSE [raised |-> NULL,
                       has_custom_names |-> FALSE,
                       columns |-> [i \in 1..Len(shown) |->
                                       [original_name |-> shown[i].original_name,
                                        display_name |-> shown[i].original_name,
                                        description |-> NULL]]]
        ELSE [raised |-> NULL,
              has_custom_names |-> TRUE,
              columns |-> [i \in 1..Len(metadata_list) |->
                              [original_name |-> metadata_list[i].original_column_name,
                               \* meta.display_name or meta.original_column_name
                               display_name |->
                                   IF metadata_list[i].display_name \in {NULL, ""}
                                   THEN metadata_list[i].original_column_name
                                   ELSE metadata_list[i].display_name,
                               description |-> metadata_list[i].description]]]

----------------------------------------------------------------------------
(* export_columns_config and import_columns_config (api/admin_routes.py) *)

export_columns_config(dir, rows, filename) ==
    LET columns_info == get_file_columns_admin(dir, rows, filename)
        HasMetadata(col) == col.has_metadata
        kept == SelectSeq(columns_info.columns, HasMetadata)
    IN  IF columns_info.raised # NULL
        THEN [status |-> 500, filename |-> filename, columns |-> <<>>]
        ELSE [status |-> 200,
              filename |-> filename,
              columns |-> [i \in 1..Len(kept) |->
                              [original_name |-> kept[i].original_name,
                               display_name |-> kept[i].display_name,
                               description |-> kept[i].description,
                               is_visible |-> kept[i].is_visible,
                               sort_order |-> kept[i].sort_order]]]

\* the payload a client sends back: the export without its status
ExportedPayload(dir, rows, filename) ==
    LET e == export_columns_config(dir, rows, filename)
    IN  [filename |-> e.filename, columns |-> e.columns]

\* an import that copies original_name into display_name
import_columns_config_miscopy(rows, seq, filename, config_data) ==
    LET columns_updates ==
            [i \in 1..Len(config_data.columns) |->
                [original_column_name |-> config_data.columns[i].original_name,
                 display_name |-> config_data.columns[i].original_name,
                 description |-> config_data.columns[i].description,
                 is_visible |-> config_data.columns[i].is_visible,
                 sort_order |-> config_data.columns[i].sort_order]]
        results == bulk_update_columns(rows, seq, filename, columns_updates)
    IN  IF config_data.filename # filename
        THEN [rows |-> rows, seq |-> seq, updated |-> 0, created |-> 0,
              errors |-> <<>>, imported_columns |-> 0, status |-> 500]
        ELSE [rows |-> results.rows, seq |-> results.seq, updated |-> results.updated,
              created |-> results.created, errors |-> results.errors,
              imported_columns |-> Len(columns_updates), status |-> 200]

import_columns_config(rows, seq, filename, config_data) ==
    LET unchanged == [rows |-> rows, seq |-> seq, updated |-> 0, created |-> 0,
                      errors |-> <<>>, imported_columns |-> 0]
        \* the exception raised inside the try block, if any
        raised == IF config_data.filename # filename THEN 400 ELSE 0
        columns_updates ==
            [i \in 1..Len(config_data.columns) |->
                [original_column_name |-> config_data.columns[i].original_name,
                 display_name |-> config_data.columns[i].display_name,
                 description |-> config_data.columns[i].description,
                 is_visible |-> config_data.columns[i].is_visible,
                 sort_order |-> config_data.columns[i].sort_order]]
        results == bulk_update_columns(rows, seq, filename, columns_updates)
    IN  IF raised # 0
        THEN \* except Exception catches the HTTPException(400) too
             unchanged @@ [status |-> 500]
        ELSE [rows |-> results.rows, seq |-> results.seq, updated |-> results.updated,
              created |-> results.created, errors |-> results.errors,
              imported_columns |-> Len(columns_updates), status |-> 200]

----------------------------------------------------------------------------
(* FileService.get_file_data_with_display_names *)

\* the value of physical column c in row i of a file
Cell(c, i) == <<c, i>>

\* floor division over-estimates by one on exact multiples when 1 is added
total_pages_off_by_one(total_rows, page_size) == (total_rows \div page_size) + 1

\* "total_pages": (int(total_rows) + page_size - 1) // page_size
total_pages(total_rows, page_size) == (total_rows + page_size - 1) \div page_size

\* the SELECT list when display names are requested: for each requested name
\* the first visible column displayed under it, else the name itself; the
\* columns are selected without alias, so the result column is the physical one
requested_projection(mapping, columns) ==
    [i \in 1..Len(columns) |->
        LET hits == {j \in 1..Len(mapping) : mapping[j].display_name = columns[i]}
        IN  IF hits # {}
            THEN LET j == CHOOSE h \in hits : \A g \in hits : h <= g
                 IN  [expr |-> mapping[j].original_name,
                      name |-> mapping[j].original_name]
            ELSE [expr |-> columns[i], name |-> columns[i]]]

\* '"original" AS "display"' for every visible column
visible_projection(mapping) ==
    [i \in 1..Len(mapping) |->
        [expr |-> mapping[i].original_name, name |-> mapping[i].display_name]]

\* SELECT *
star_projection(schema) ==
    [i \in 1..Len(schema) |-> [expr |-> schema[i], name |-> schema[i]]]

\* the response when the query raises
failed_query(exception) ==
    [raised |-> exception, data |-> <<>>, columns |-> <<>>,
     has_custom_names |-> FALSE, total_rows |-> 0, total_pages |-> 0]

\* row n of the result, keyed by the result column names (df.columns)
data_record(projection, n) ==
    [name \in {projection[i].name : i \in 1..Len(projection)} |->
        LET i == CHOOSE k \in 1..Len(projection) : projection[k].name = name
        IN  Cell(projection[i].expr, n)]

\* the SELECT list (columns_str); columns = <<>> stands for columns=None
\* (and for an empty list: `if columns`)
select_list(schema, has_custom_names, columns_mapping, columns) ==
    IF columns # <<>> /\ has_custom_names
    THEN requested_projection(columns_mapping, columns)
    ELSE IF has_custom_names /\ columns_mapping # <<>>
         THEN visible_projection(columns_mapping)
         ELSE star_projection(schema)

\* display_columns; <<>> stands for None
display_columns_of(has_custom_names, columns_mapping, columns) ==
    IF columns # <<>> /\ has_custom_names THEN columns
    ELSE IF has_custom_names
         THEN [i \in 1..Len(columns_mapping) |-> columns_mapping[i].display_name]
         ELSE <<>>

\* the data query, the count query and the response built from them
execute_query(schema, total_rows, projection, display_columns, has_custom_names, page, page_size) ==
    LET offset == (page - 1) * page_size
        \* LIMIT page_size OFFSET offset
        fetched == IF total_rows - offset > 0
                   THEN Min(page_size, total_rows - offset) ELSE 0
    IN  \* the engine rejects a column the file does not have
        IF \E i \in 1..Len(projection) : projection[i].expr \notin Range(schema)
        THEN failed_query("Exception")
        ELSE [raised |-> NULL,
              data |-> [k \in 1..fetched |-> data_record(projection, offset + k)],
              \* display_columns or list(df.columns)
              columns |-> IF display_columns # <<>> THEN display_columns
                          ELSE [i \in 1..Len(projection) |-> projection[i].name],
              has_custom_names |-> has_custom_names,
              total_rows |-> total_rows,
              total_pages |-> total_pages(total_rows, page_size)]

\* the query under a resolved display schema
query_with_schema(file, has_custom_names, columns_mapping, page, page_size, columns) ==
    execute_query(file.columns, file.rows,
                  select_list(file.columns, has_custom_names, columns_mapping, columns),
                  display_columns_of(has_custom_names, columns_mapping, columns),
                  has_custom_names, page, page_size)

get_file_data_with_display_names(dir, rows, filename, page, page_size, columns) ==
    IF ~dir[filename].exists THEN failed_query("FileNotFoundError")
    ELSE LET display_schema == get_columns_display_schema(dir, rows, filename)
         IN  IF display_schema.raised # NULL
             THEN \* the bare except around the display schema
                  query_with_schema(dir[filename], FALSE, <<>>, page, page_size, columns)
             ELSE query_with_schema(dir[filename], display_schema.has_custom_names,
                                    display_schema.columns, page, page_size, columns)

----------------------------------------------------------------------------
(* MetadataService: file_metadata and metadata_history *)

\* str(list) of a tags list
ReprList(tags) ==
    IF tags = <<>> THEN "[]"
    ELSE IF tags = <<"x">> THEN "['x']"
    ELSE "['x', 'y']"

\* str(value) of a field value (strings are their own str), None stays None
Str(field, value) ==
    IF field = "tags" THEN ReprList(value) ELSE value

\* the fields of FileMetadataUpdate that are modelled (description and
\* frequency behave as responsible, permissions as title)
UpdateFields == {"title", "responsible", "tags"}

\* {k: v for k, v in metadata.dict().items() if v is not None}
update_data_of(patch) ==
    [k \in {x \in DOMAIN patch : x = "tags" \/ patch[x] # NULL} |-> patch[k]]

\* the fields of update_data in the order of FileMetadataUpdate
FieldOrder == <<"title", "responsible", "tags">>

\* a recorder without the "only on real change" test
RECURSIVE record_every_field(_, _, _, _)
record_every_field(current_metadata, update_data, changed_by, i) ==
    IF i > Len(FieldOrder) THEN <<>>
    ELSE LET field == FieldOrder[i]
             rest == record_every_field(current_metadata, update_data, changed_by, i + 1)
         IN  IF field \in DOMAIN update_data
             THEN <<[file_id |-> current_metadata.id,
                     field_changed |-> field,
                     old_value |-> Str(field, current_metadata[field]),
                     new_value |-> Str(field, update_data[field]),
                     changed_by |-> changed_by]>> \o rest
             ELSE rest

\* MetadataService._record_history_changes: the rows it adds, from field i on
RECURSIVE record_history_changes(_, _, _, _)
record_history_changes(current_metadata, update_data, changed_by, i) ==
    IF i > Len(FieldOrder) THEN <<>>
    ELSE LET field == FieldOrder[i]
             rest == record_history_changes(current_metadata, update_data, changed_by, i + 1)
         IN  IF field \in DOMAIN update_data
                /\ current_metadata[field] # update_data[field]
             THEN <<[file_id |-> current_metadata.id,
                     field_changed |-> field,
                     \* None stays None: NULL is its own Str
                     old_value |-> Str(field, current_metadata[field]),
                     new_value |-> Str(field, update_data[field]),
                     changed_by |-> changed_by]>> \o rest
             ELSE rest

FileMetadataFields == {"id", "filename", "title", "responsible", "permissions", "tags"}

update_metadata(files, history, filename, patch, changed_by) ==
    LET found == {m \in files : m.filename = filename}
    IN  IF found = {}
        THEN [files |-> files, history |-> history, found |-> FALSE]
        ELSE LET current == CHOOSE m \in found : TRUE
                 update_data == update_data_of(patch)
                 changed == [k \in FileMetadataFields |->
                                IF k \in DOMAIN update_data THEN update_data[k]
                                ELSE current[k]]
             IN  IF DOMAIN update_data = {}
                 THEN [files |-> files, history |-> history, found |-> TRUE]
                 ELSE [files |-> (files \ {current}) \cup {changed},
                       history |-> history \o record_history_changes(
                                                  current, update_data, changed_by, 1),
                       found |-> TRUE]

\* a create that overwrites the row the filename already has
create_metadata_replacing(files, seq, metadata) ==
    [files |-> {m \in files : m.filename # metadata.filename}
                  \cup {[id |-> seq + 1,
                         filename |-> metadata.filename,
                         title |-> metadata.title,
                         responsible |-> metadata.responsible,
                         permissions |-> metadata.permissions,
                         tags |-> metadata.tags]},
     seq |-> seq + 1, raised |-> NULL]

create_metadata(files, seq, metadata) ==
    IF \E m \in files : m.filename = metadata.filename
    THEN \* IntegrityError on the unique filename: rollback, ValueError
         [files |-> files, seq |-> seq, raised |-> "ValueError"]
    ELSE [files |-> files \cup {[id |-> seq + 1,
                                 filename |-> metadata.filename,
                                 title |-> metadata.title,
                                 responsible |-> metadata.responsible,
                                 permissions |-> metadata.permissions,
                                 tags |-> metadata.tags]},
          seq |-> seq + 1, raised |-> NULL]

\* DELETE FROM file_metadata; metadata_history rows go with ON DELETE CASCADE
delete_metadata(files, history, filename) ==
    LET found == {m \in files : m.filename = filename}
        ids == {m.id : m \in found}
        Kept(h) == h.file_id \notin ids
    IN  [files |-> files \ found,
         history |-> SelectSeq(history, Kept),
         deleted |-> found # {}]

----------------------------------------------------------------------------
(* State machine *)

\* the directory with a file f1 of n rows, written with columns b, a
Disk(n) ==
    [f \in Files |->
        IF f = "f1"
        THEN [exists |-> TRUE, columns |-> <<"b", "a">>, rows |-> n, mtime |-> 0]
        ELSE NoFile]

\* the tables after start-up
EmptyTables ==
    /\ column_metadata = {}
    /\ column_metadata_id_seq = 0
    /\ file_metadata = {}
    /\ file_metadata_id_seq = 0
    /\ metadata_history = <<>>
    /\ last = [op |-> "init"]
    /\ tick = 0
    /\ in_flight = [c \in Clients |-> Idle]
    /\ db_sessions = [c \in Clients |-> NoSession]
    /\ powerbi_projects = <<>>
    /\ powerbi_exports = <<>>
    /\ background_tasks = <<>>
    /\ duckdb_conn = NoConnection
    /\ event_loop = "free"

Init ==
    /\ parquet_dir = Disk(MaxRows)
    /\ EmptyTables

\* one more request step
Tick == tick' = 1 - tick

\* a handler that runs from start to end without another request in between:
\* the requests in flight, the sessions and the Power BI tables stay as they are
Step ==
    /\ Tick
    /\ UNCHANGED <<in_flight, db_sessions, powerbi_projects, powerbi_exports,
                   background_tasks, duckdb_conn, event_loop>>

\* PUT /files/{filename}/columns/{column_name}
update_column_metadata_admin(filename, column_name, updates) ==
    LET r == update_column_metadata(column_metadata, column_metadata_id_seq,
                                    filename, column_name, updates)
    IN  /\ column_metadata' = r.rows
        /\ column_metadata_id_seq' = r.seq
        /\ last' = [op |-> "update_column", filename |-> filename,
                    column |-> column_name, updates |-> updates,
                    status |-> IF r.raised THEN 500 ELSE 200,
                    action |-> r.action, metadata_id |-> r.metadata_id]
        /\ Step
        /\ UNCHANGED <<parquet_dir, file_metadata, file_metadata_id_seq, metadata_history>>

\* the HTTP status a route answers with when the service raised `raised`
StatusOf(raised) ==
    IF raised = NULL THEN 200
    ELSE IF raised = "FileNotFoundError" THEN 404
    ELSE 500

\* POST /files/{filename}/columns/bulk-update
bulk_update_columns_admin(filename, columns_updates) ==
    LET r == bulk_update_columns(column_metadata, column_metadata_id_seq,
                                 filename, columns_updates)
    IN  /\ column_metadata' = r.rows
        /\ column_metadata_id_seq' = r.seq
        /\ last' = [op |-> "bulk_update", filename |-> filename,
                    columns_updates |-> columns_updates, status |-> 200,
                    updated |-> r.updated, created |-> r.created, errors |-> r.errors]
        /\ Step
        /\ UNCHANGED <<parquet_dir, file_metadata, file_metadata_id_seq, metadata_history>>

\* POST /files/{filename}/columns/{column_name}/reset
reset_column_metadata_admin(filename, column_name) ==
    LET r == reset_column_metadata(column_metadata, filename, column_name)
    IN  /\ column_metadata' = r.rows
        /\ last' = [op |-> "reset_column", filename |-> filename,
                    column |-> column_name, status |-> 200, action |-> r.action]
        /\ Step
        /\ UNCHANGED <<parquet_dir, column_metadata_id_seq, file_metadata,
                       file_metadata_id_seq, metadata_history>>

\* POST /files/{filename}/columns/sync
sync_file_columns_admin(filename) ==
    LET r == sync_file_columns_metadata(parquet_dir, column_metadata,
                                        column_metadata_id_seq, filename)
    IN  /\ column_metadata' = r.rows
        /\ column_metadata_id_seq' = r.seq
        /\ last' = [op |-> "sync", filename |-> filename,
                    status |-> StatusOf(r.raised),
                    created |-> r.created, updated |-> r.updated, hidden |-> r.hidden,
                    total_current_columns |-> r.total_current_columns,
                    \* the request before this one was a successful sync of the same
                    \* file: the physical schema has not changed in between
                    rerun |-> /\ last.op = "sync"
                              /\ last.filename = filename
                              /\ last.status = 200]
        /\ Step
        /\ UNCHANGED <<parquet_dir, file_metadata, file_metadata_id_seq, metadata_history>>

\* GET /files/{filename}/columns/display-schema
get_columns_display_schema_admin(filename) ==
    LET r == get_columns_display_schema(parquet_dir, column_metadata, filename)
    IN  /\ last' = [op |-> "display_schema", filename |-> filename,
                    status |-> StatusOf(r.raised),
                    has_custom_names |-> r.has_custom_names, columns |-> r.columns]
        /\ Step
        /\ UNCHANGED <<parquet_dir, column_metadata, column_metadata_id_seq,
                       file_metadata, file_metadata_id_seq, metadata_history>>

\* POST /files/{filename}/columns/import
import_columns_config_admin(filename, config_data) ==
    LET r == import_columns_config(column_metadata, column_metadata_id_seq,
                                   filename, config_data)
    IN  /\ column_metadata' = r.rows
        /\ column_metadata_id_seq' = r.seq
        /\ last' = [op |-> "import", filename |-> filename, config_data |-> config_data,
                    status |-> r.status, imported_columns |-> r.imported_columns,
                    updated |-> r.updated, created |-> r.created, errors |-> r.errors]
        /\ Step
        /\ UNCHANGED <<parquet_dir, file_metadata, file_metadata_id_seq, metadata_history>>

\* the environment rewrites a file on disk with another schema
SchemaChange(filename, schema) ==
    /\ parquet_dir[filename].exists
    /\ parquet_dir[filename].columns # schema
    /\ parquet_dir' = [parquet_dir EXCEPT ![filename].columns = schema]
    /\ last' = [op |-> "schema_change", filename |-> filename]
    /\ Step
    /\ UNCHANGED <<column_metadata, column_metadata_id_seq, file_metadata,
                   file_metadata_id_seq, metadata_history>>

\* GET /files/{filename}/data/enhanced (search and sort_column left out)
get_file_data_enhanced(filename, page, page_size, columns) ==
    LET r == get_file_data_with_display_names(parquet_dir, column_metadata, filename,
                                              page, page_size, columns)
    IN  /\ last' = [op |-> "file_data", filename |-> filename, page |-> page,
                    page_size |-> page_size, requested |-> columns,
                    raised |-> r.raised, data |-> r.data, columns |-> r.columns,
                    has_custom_names |-> r.has_custom_names,
                    total_rows |-> r.total_rows, total_pages |-> r.total_pages]
        /\ Step
        /\ UNCHANGED <<parquet_dir, column_metadata, column_metadata_id_seq,
                       file_metadata, file_metadata_id_seq, metadata_history>>

\* POST /metadata (api/routes.py)
create_metadata_route(metadata) ==
    LET r == create_metadata(file_metadata, file_metadata_id_seq, metadata)
    IN  /\ file_metadata_id_seq < MaxFileId
        /\ file_metadata' = r.files
        /\ file_metadata_id_seq' = r.seq
        /\ last' = [op |-> "create_metadata", filename |-> metadata.filename,
                    status |-> IF r.raised = NULL THEN 200 ELSE 400]
        /\ Step
        /\ UNCHANGED <<parquet_dir, column_metadata, column_metadata_id_seq,
                       metadata_history>>

\* PUT /metadata/{filename}?changed_by=... (api/routes.py)
update_metadata_route(filename, patch, changed_by) ==
    LET r == update_metadata(file_metadata, metadata_history, filename, patch, changed_by)
    IN  /\ Len(r.history) <= MaxHistory
        /\ file_metadata' = r.files
        /\ metadata_history' = r.history
        /\ last' = [op |-> "update_metadata", filename |-> filename, patch |-> patch,
                    changed_by |-> changed_by,
                    status |-> IF r.found THEN 200 ELSE 404]
        /\ Step
        /\ UNCHANGED <<parquet_dir, column_metadata, column_metadata_id_seq,
                       file_metadata_id_seq>>

\* DELETE /metadata/{filename} (api/routes.py)
delete_metadata_route(filename) ==
    LET r == delete_metadata(file_metadata, metadata_history, filename)
    IN  /\ file_metadata' = r.files
        /\ metadata_history' = r.history
        /\ last' = [op |-> "delete_metadata", filename |-> filename,
                    status |-> IF r.deleted THEN 200 ELSE 404]
        /\ Step
        /\ UNCHANGED <<parquet_dir, column_metadata, column_metadata_id_seq,
                       file_metadata_id_seq>>

----------------------------------------------------------------------------
(* Inputs *)

ColumnUpdates(c) ==
    {EmptyDict,
     [display_name |-> Custom(c), description |-> "d"],
     [display_name |-> TooLong],
     [is_visible |-> FALSE],
     [is_visible |-> TRUE],
     [sort_order |-> MaxSortOrder]}

\* the items of bulk-update lists: two good ones, one the store rejects, one
\* without its original_column_name
BulkItems ==
    {[original_column_name |-> "a", display_name |-> Custom("a"), description |-> "d"],
     [original_column_name |-> "b", is_visible |-> FALSE],
     [original_column_name |-> "a", display_name |-> TooLong],
     [is_visible |-> FALSE]}

\* bulk-update lists up to a length
ListsUpTo(n) == UNION {[1..k -> BulkItems] : k \in 0..n}

BulkLists == ListsUpTo(MaxItems)

\* import payloads: the export of the file as it is, the same export under
\* another filename, and a hand-written configuration
ImportPayloads(filename) ==
    LET exported == ExportedPayload(parquet_dir, column_metadata, filename)
    IN  {[exported EXCEPT !.filename = f] : f \in Files}
        \cup {[filename |-> filename,
               columns |-> <<[original_name |-> "b", display_name |-> Custom("b"),
                              description |-> "d", is_visible |-> TRUE,
                              sort_order |-> 0]>>]}

\* the single-column update of the bulk-update runs
FewColumnUpdates(c) == {[is_visible |-> FALSE]}

\* Updates: for each column, the updates a client sends for it
AdminNext(Updates, Lists) ==
    \/ \E f \in ManagedFiles, c \in Cols : \E u \in Updates[c] :
           update_column_metadata_admin(f, c, u)
    \/ \E f \in ManagedFiles, items \in Lists : bulk_update_columns_admin(f, items)
    \/ \E f \in ManagedFiles, c \in Cols : reset_column_metadata_admin(f, c)
    \/ \E f \in Files : sync_file_columns_admin(f)
    \/ \E f \in Files : get_columns_display_schema_admin(f)
    \/ \E f \in ManagedFiles : \E p \in ImportPayloads(f) : import_columns_config_admin(f, p)
    \/ \E f \in Files, s \in Schemas : SchemaChange(f, s)

\* column administration: every single-column update, bulk lists of one item
Next == AdminNext([c \in Cols |-> ColumnUpdates(c)], ListsUpTo(1))

Spec == Init /\ [][Next]_vars

\* bulk updates: every bulk list, over the rows single-column updates and
\* resets leave
NextBulk ==
    \/ \E f \in ManagedFiles, c \in Cols : \E u \in FewColumnUpdates(c) :
           update_column_metadata_admin(f, c, u)
    \/ \E f \in ManagedFiles, items \in BulkLists : bulk_update_columns_admin(f, items)
    \/ \E f \in ManagedFiles, c \in Cols : reset_column_metadata_admin(f, c)

SpecBulk == Init /\ [][NextBulk]_vars
\* the single-column updates of the data-query runs
DataColumnUpdates(c) ==
    {[display_name |-> Custom(c), description |-> "d"], [is_visible |-> FALSE]}

\* the column lists a data query asks for: none, a display name, physical names
ColumnRequests == {<<>>, <<"Col A">>, <<"a">>, <<"b">>}

PageSizes == 1..MaxPageSize

\* row counts of the file on disk
RowCounts == 0..MaxRows

InitData ==
    /\ parquet_dir \in {Disk(n) : n \in RowCounts}
    /\ EmptyTables

\* data queries: every column list on the first page, and every page and page
\* size without a column list
NextData ==
    \/ \E f \in ManagedFiles, c \in Cols : \E u \in DataColumnUpdates(c) :
           update_column_metadata_admin(f, c, u)
    \/ \E f \in Files, s \in Schemas : SchemaChange(f, s)
    \/ \E f \in Files, columns \in ColumnRequests :
           get_file_data_enhanced(f, 1, MaxPageSize, columns)
    \/ \E f \in ManagedFiles, page \in 1..MaxPage, page_size \in PageSizes :
           get_file_data_enhanced(f, page, page_size, <<>>)

SpecData == InitData /\ [][NextData]_vars

\* the business metadata a client sends
NewMetadata ==
    {[filename |-> f, title |-> "t1", responsible |-> r, permissions |-> "public",
      tags |-> <<>>] :
        f \in ManagedFiles, r \in {NULL, "r1"}}

Patches ==
    {EmptyDict,
     [title |-> "t1"], [title |-> "t2"],
     [responsible |-> "r1"], [responsible |-> NULL],
     [tags |-> <<"x">>], [tags |-> <<>>],
     [title |-> "t2", tags |-> <<"x">>]}

Actors == {"admin", "api"}

NextMeta ==
    \/ \E m \in NewMetadata : create_metadata_route(m)
    \/ \E f \in Files, patch \in Patches, who \in Actors :
           update_metadata_route(f, patch, who)
    \/ \E f \in Files : delete_metadata_route(f)

SpecMeta == Init /\ [][NextMeta]_vars

----------------------------------------------------------------------------
(* Properties of column administration *)

\* C1: a sync that directly follows a successful sync of the same file, with
\* no physical schema change in between, reports zero created and zero hidden
\* columns and leaves the stored rows unchanged.
C1_SyncIdempotent ==
    [][(last'.op = "sync" /\ last'.rerun)
        => /\ last'.created = 0
           /\ last'.hidden = 0
           /\ column_metadata' = column_metadata]_vars

\* C2: when the file has at least one stored row, whatever its is_visible, a
\* physical column without a row is not in the effective display schema.
C2_OptInVisibility ==
    (/\ last.op = "display_schema"
     /\ last.status = 200
     /\ RowsOf(column_metadata, last.filename) # {})
    => \A c \in Range(parquet_dir[last.filename].columns) :
           RowsOfKey(column_metadata, last.filename, c) = {}
           => \A i \in 1..Len(last.columns) : last.columns[i].original_name # c

\* C3: for a file on disk with zero stored rows the display schema has
\* has_custom_names = false and is the physical schema: one entry per physical
\* column, in physical order, display_name equal to the original name.
C3_EffectiveSchemaFallback ==
    (/\ last.op = "display_schema"
     /\ parquet_dir[last.filename].exists
     /\ RowsOf(column_metadata, last.filename) = {})
    => LET schema == parquet_dir[last.filename].columns
       IN  /\ last.status = 200
           /\ last.has_custom_names = FALSE
           /\ Len(last.columns) = Len(schema)
           /\ \A i \in 1..Len(schema) :
                  /\ last.columns[i].original_name = schema[i]
                  /\ last.columns[i].display_name = schema[i]

C3_Witness ==
    /\ last.op = "display_schema"
    /\ last.filename = "f1"
    /\ column_metadata = {}
    /\ Len(last.columns) = 2
    /\ last.columns[1].original_name = "b"

\* C5: importing the unchanged export of a file into the same filename reports
\* every item as updated, none as created, no error, and leaves every stored
\* row as it was.
C5_ExportImportRoundTrip ==
    [][(/\ last'.op = "import"
        /\ export_columns_config(parquet_dir, column_metadata, last'.filename).status = 200
        /\ last'.config_data
             = ExportedPayload(parquet_dir, column_metadata, last'.filename))
        => /\ last'.status = 200
           /\ last'.updated = Len(last'.config_data.columns)
           /\ last'.created = 0
           /\ last'.errors = <<>>
           /\ column_metadata' = column_metadata]_vars

C5_Witness ==
    /\ last.op = "import"
    /\ last.status = 200
    /\ last.config_data = ExportedPayload(parquet_dir, column_metadata, last.filename)
    /\ Len(last.config_data.columns) = 2
    /\ last.updated = 2
    /\ \E i \in 1..2 : /\ ~last.config_data.columns[i].is_visible
                       /\ last.config_data.columns[i].description = "d"
                       /\ last.config_data.columns[i].sort_order > 0

\* an item of a bulk list whose single-column update fails: it names no
\* column, or carries a display_name the store rejects
ItemFails(item) ==
    \/ "original_column_name" \notin DOMAIN item
    \/ "display_name" \in DOMAIN item /\ item.display_name = TooLong

\* C6: in a bulk update every failing item is recorded in the error list,
\* every other item is applied and stays applied (the latest good item wins on
\* each field), rows no good item names are untouched, and
\* updated + created + errors equals the number of items.
C6_PartialBulkFailureIsolation ==
    [][(last'.op = "bulk_update")
        => LET items == last'.columns_updates
               f == last'.filename
               good == {i \in 1..Len(items) : ~ItemFails(items[i])}
               bad == {i \in 1..Len(items) : ItemFails(items[i])}
               named == {items[i].original_column_name : i \in good}
           IN  /\ Len(last'.errors) = Cardinality(bad)
               /\ last'.updated + last'.created + Len(last'.errors) = Len(items)
               /\ last'.updated + last'.created = Cardinality(good)
               /\ \A i \in good :
                      LET c == items[i].original_column_name
                          rows == RowsOfKey(column_metadata', f, c)
                      IN  /\ Cardinality(rows) = 1
                          /\ \A k \in (DOMAIN items[i]) \ {"original_column_name"} :
                                 (\A j \in good :
                                      (j > i /\ items[j].original_column_name = c)
                                      => k \notin DOMAIN items[j])
                                 => \A r \in rows : r[k] = items[i][k]
               /\ \A r \in column_metadata :
                      (r.filename # f \/ r.original_column_name \notin named)
                      => r \in column_metadata'
               /\ \A r \in column_metadata' :
                      (r.filename # f \/ r.original_column_name \notin named)
                      => r \in column_metadata]_vars

C6_Witness ==
    /\ last.op = "bulk_update"
    /\ Len(last.columns_updates) >= 2
    /\ ItemFails(last.columns_updates[1])
    /\ ~ItemFails(last.columns_updates[2])
    /\ Len(last.errors) = 1
    /\ last.created = 1
    /\ RowsOfKey(column_metadata, last.filename,
                 last.columns_updates[2].original_column_name) # {}

\* C9: an import whose payload names another filename mutates no row and is
\* answered with the bad-request status, not the internal-failure status.
C9_ImportMismatchFailsClosed ==
    [][(last'.op = "import" /\ last'.config_data.filename # last'.filename)
        => /\ column_metadata' = column_metadata
           /\ last'.status = 400]_vars

\* at most one row per (filename, original_column_name)
UniqueKeys(rows) ==
    \A r \in rows, s \in rows :
        (r.filename = s.filename /\ r.original_column_name = s.original_column_name)
        => r = s

\* C10: a successful single-column update reports "created" exactly when no
\* row for the key existed (the new row takes display_name = original name,
\* is_visible = true, sort_order = 0 for fields not provided) and "updated"
\* otherwise (only the provided fields change); no other row changes, and
\* after every operation there is at most one row per key.
C10_UpsertSemantics ==
    [][/\ UniqueKeys(column_metadata')
       /\ (last'.op = "update_column" /\ last'.status = 200)
          => LET f == last'.filename
                 c == last'.column
                 u == last'.updates
                 before == RowsOfKey(column_metadata, f, c)
                 after == RowsOfKey(column_metadata', f, c)
             IN  /\ (last'.action = "created") <=> (before = {})
                 /\ (last'.action = "updated") <=> (before # {})
                 /\ Cardinality(after) = 1
                 /\ column_metadata' \ after = column_metadata \ before
                 /\ \A n \in after :
                        /\ last'.metadata_id = n.id
                        /\ before = {}
                           => /\ n.display_name
                                    = IF "display_name" \in DOMAIN u
                                      THEN u.display_name ELSE c
                              /\ n.description
                                    = IF "description" \in DOMAIN u
                                      THEN u.description ELSE NULL
                              /\ n.is_visible
                                    = IF "is_visible" \in DOMAIN u
                                      THEN u.is_visible ELSE TRUE
                              /\ n.sort_order
                                    = IF "sort_order" \in DOMAIN u
                                      THEN u.sort_order ELSE 0
                        /\ \A e \in before :
                               \A k \in ColumnMetadataFields :
                                   n[k] = IF k \in DOMAIN u THEN u[k] ELSE e[k]]_vars

C10_Witness ==
    /\ last.op = "update_column"
    /\ last.action = "updated"
    /\ last.updates = [is_visible |-> FALSE]
    /\ Cardinality(column_metadata) = 2
    /\ \E r \in column_metadata :
           /\ r.original_column_name = last.column
           /\ ~r.is_visible
           /\ r.display_name = "Col A"

----------------------------------------------------------------------------
(* Properties of the data query *)

\* C4: when a visible stored row maps physical column P to display name D and
\* the data is requested with columns = [D], the response lists D in its
\* columns field and every returned record has the single key D, whose value
\* is the value of P in that row of the file.
C4_DisplayNameRoundTrip ==
    (/\ last.op = "file_data"
     /\ last.raised = NULL
     /\ Len(last.requested) = 1)
    => \A r \in RowsOf(column_metadata, last.filename) :
           (r.is_visible /\ r.display_name = last.requested[1])
           => /\ last.columns = last.requested
              /\ \A k \in 1..Len(last.data) :
                     /\ DOMAIN last.data[k] = {r.display_name}
                     /\ last.data[k][r.display_name]
                            = Cell(r.original_column_name,
                                   (last.page - 1) * last.page_size + k)

\* C8: a successful data query reports the row count of the file and
\* total_pages = ceil(total_rows / page_size); a page p in 1..total_pages holds
\* min(page_size, total_rows - (p - 1) * page_size) records and a page beyond
\* total_pages holds none.
C8_PaginationArithmetic ==
    (last.op = "file_data" /\ last.raised = NULL)
    => LET total == parquet_dir[last.filename].rows
           p == last.page
           size == last.page_size
       IN  /\ last.total_rows = total
           /\ last.total_pages * size >= total
           /\ (last.total_pages - 1) * size < total
           /\ last.total_pages >= 0
           /\ p <= last.total_pages
                  => Len(last.data) = Min(size, total - (p - 1) * size)
           /\ p > last.total_pages => Len(last.data) = 0

\* the last page of a file whose row count is not a multiple of the page size
C8_Witness ==
    /\ last.op = "file_data"
    /\ last.raised = NULL
    /\ last.total_rows = 3
    /\ last.page_size = 2
    /\ last.total_pages = 2
    /\ last.page = 2
    /\ Len(last.data) = 1

----------------------------------------------------------------------------
(* Properties of the change history *)

\* C7: an update of an existing file's metadata appends to the history, in
\* one call, exactly one row for each provided (non-None) field whose value
\* differs from the stored one, with the file's id, the field, the old and the
\* new value as strings and the actor; it appends nothing for a provided field
\* whose value equals the stored one, and keeps the earlier rows as they were.
C7_HistoryOnlyOnRealChange ==
    [][(last'.op = "update_metadata" /\ last'.status = 200)
        => LET stored == CHOOSE m \in file_metadata : m.filename = last'.filename
               patch == last'.patch
               Provided(f) == f \in DOMAIN patch /\ (f = "tags" \/ patch[f] # NULL)
               differing == {f \in UpdateFields : Provided(f) /\ stored[f] # patch[f]}
               old == Len(metadata_history)
               appended == [i \in 1..(Len(metadata_history') - old)
                               |-> metadata_history'[old + i]]
           IN  /\ Len(metadata_history') >= old
               /\ \A i \in 1..old : metadata_history'[i] = metadata_history[i]
               /\ Len(appended) = Cardinality(differing)
               /\ \A f \in differing :
                      \E i \in 1..Len(appended) :
                          appended[i] = [file_id |-> stored.id,
                                         field_changed |-> f,
                                         old_value |-> Str(f, stored[f]),
                                         new_value |-> Str(f, patch[f]),
                                         changed_by |-> last'.changed_by]]_vars

\* an update that repeats the stored title and changes the tags: the earlier
\* title row is followed by one tags row only
C7_Witness ==
    /\ last.op = "update_metadata"
    /\ last.status = 200
    /\ last.patch = [title |-> "t2", tags |-> <<"x">>]
    /\ Len(metadata_history) = 2
    /\ metadata_history[1].field_changed = "title"
    /\ metadata_history[1].new_value = "t2"
    /\ metadata_history[2].field_changed = "tags"
    /\ metadata_history[2].old_value = "[]"
    /\ metadata_history[2].new_value = "['x']"
    /\ metadata_history[2].changed_by = last.changed_by

\* C11: when the file has stored rows and every one of them is hidden, a data
\* query without a column list answers with no column at all (an explicit
\* empty projection): its columns field is empty and no record carries a key.
C11_EmptyProjectionExplicit ==
    (/\ last.op = "file_data"
     /\ last.raised = NULL
     /\ last.requested = <<>>
     /\ RowsOf(column_metadata, last.filename) # {}
     /\ \A r \in RowsOf(column_metadata, last.filename) : ~r.is_visible)
    => /\ last.columns = <<>>
       /\ \A k \in 1..Len(last.data) : DOMAIN last.data[k] = {}

----------------------------------------------------------------------------
(* FileService.get_all_files_combined and search_files_combined *)

MaxMtime == 3         \* latest modification time of a file, in half seconds

\* the filenames of the listing: f1 and f2 may be on disk, f3 never is
FileNames == Files \cup {"f3"}

\* the characters of the strings the listing compares: filename f1 reads
\* "Ab", f2 "b", f3 "c", title t1 "Bc", title t2 "a"; any other string is a
\* single character
Chars(s) ==
    CASE s = "f1" -> <<"A", "b">>
      [] s = "f2" -> <<"b">>
      [] s = "f3" -> <<"c">>
      [] s = "t1" -> <<"B", "c">>
      [] s = "t2" -> <<"a">>
      [] OTHER -> <<s>>

\* str.lower(), character by character
lower(chars) ==
    [i \in 1..Len(chars) |->
        CASE chars[i] = "A" -> "a"
          [] chars[i] = "B" -> "b"
          [] OTHER -> chars[i]]

\* sub in s
contains(sub, s) ==
    \E i \in 0..(Len(s) - Len(sub)) : SubSeq(s, i + 1, i + Len(sub)) = sub

\* column ILIKE '%term%'
ilike(column, term) == contains(lower(Chars(term)), lower(Chars(column)))

\* datetime.isoformat(), as character codes: every field is zero-padded (only
\* the two digits of the seconds are kept here) and the fraction is written
\* only when it is not zero
isoformat(mtime) ==
    LET seconds == mtime \div 2
        digits == <<48 + ((seconds \div 10) % 10), 48 + (seconds % 10)>>
    IN  IF mtime % 2 = 0 THEN digits ELSE digits \o <<46, 53>>

\* s < t on strings: lexicographic on character codes
StrLess(s, t) ==
    \E k \in 1..Len(t) :
        /\ k <= Len(s) + 1
        /\ \A j \in 1..(k - 1) : s[j] = t[j]
        /\ k = Len(s) + 1 \/ s[k] < t[k]

\* the orders a set can be iterated in
Orders(S) ==
    {o \in [1..Cardinality(S) -> S] : \A x \in S : \E i \in 1..Cardinality(S) : o[i] = x}

\* ParquetFile.get_info of the files in the directory (the sizes are left out)
physical_files_of(dir) ==
    [f \in {x \in DOMAIN dir : dir[x].exists} |->
        [modified |-> isoformat(dir[f].mtime),
         row_count |-> <<dir[f].rows>>,
         column_count |-> <<Len(dir[f].columns)>>,
         columns |-> dir[f].columns]]

\* the technical data of a filename that is not on disk; <<>> stands for None
\* in row_count and column_count and for "" in modified
NoTechnicalData == [modified |-> <<>>, row_count |-> <<>>, column_count |-> <<>>,
                    columns |-> <<>>]

\* the business fields of a filename without FileMetadata; <<>> is id = None
NoBusinessData == [id |-> <<>>, title |-> NULL, responsible |-> NULL,
                   permissions |-> "public", tags |-> <<>>]

business_data(metadata) ==
    [id |-> <<metadata.id>>, title |-> metadata.title,
     responsible |-> metadata.responsible, permissions |-> metadata.permissions,
     tags |-> metadata.tags]

\* CombinedFileInfo(...)
CombinedFileInfo(filename, technical_data, business) ==
    [name |-> filename,
     modified |-> technical_data.modified,
     row_count |-> technical_data.row_count,
     column_count |-> technical_data.column_count,
     columns |-> technical_data.columns,
     id |-> business.id,
     title |-> business.title,
     responsible |-> business.responsible,
     permissions |-> business.permissions,
     tags |-> business.tags]

\* sorted(..., reverse=True) that puts the oldest first
RECURSIVE sorted_oldest_first(_)
sorted_oldest_first(combined_files) ==
    IF combined_files = <<>> THEN <<>>
    ELSE LET n == Len(combined_files)
             i == CHOOSE k \in 1..n :
                      /\ \A j \in 1..n :
                             ~StrLess(combined_files[j].modified, combined_files[k].modified)
                      /\ \A j \in 1..(k - 1) :
                             StrLess(combined_files[k].modified, combined_files[j].modified)
             rest == [j \in 1..(n - 1) |->
                         IF j < i THEN combined_files[j] ELSE combined_files[j + 1]]
         IN  <<combined_files[i]>> \o sorted_oldest_first(rest)

\* sorted(combined_files, key=lambda x: x.modified or "", reverse=True): the
\* largest key first, equal keys in their original order
RECURSIVE sorted_by_modified(_)
sorted_by_modified(combined_files) ==
    IF combined_files = <<>> THEN <<>>
    ELSE LET n == Len(combined_files)
             i == CHOOSE k \in 1..n :
                      /\ \A j \in 1..n :
                             ~StrLess(combined_files[k].modified, combined_files[j].modified)
                      /\ \A j \in 1..(k - 1) :
                             StrLess(combined_files[j].modified, combined_files[k].modified)
             rest == [j \in 1..(n - 1) |->
                         IF j < i THEN combined_files[j] ELSE combined_files[j + 1]]
         IN  <<combined_files[i]>> \o sorted_by_modified(rest)

\* a listing that walks the physical files only
all_filenames_physical_only(dir, files) == {f \in DOMAIN dir : dir[f].exists}

\* all_filenames = set(physical_files.keys()) | set(metadata_dict.keys())
all_filenames_of(dir, files) ==
    {f \in DOMAIN dir : dir[f].exists} \cup {m.filename : m \in files}

\* get_all_files_combined; order is the order the set all_filenames is iterated in
get_all_files_combined(dir, files, order) ==
    LET physical_files == physical_files_of(dir)
        combined(filename) ==
            LET found == {m \in files : m.filename = filename}
            IN  CombinedFileInfo(
                    filename,
                    IF filename \in DOMAIN physical_files
                    THEN physical_files[filename] ELSE NoTechnicalData,
                    IF found # {} THEN business_data(CHOOSE m \in found : TRUE)
                    ELSE NoBusinessData)
    IN  sorted_by_modified([i \in 1..Len(order) |-> combined(order[i])])

\* MetadataService.search_metadata: the rows the filters keep (the permissions
\* filter is left at None); NULL stands for a filter that is not given and
\* <<>> for no tags filter
search_metadata(files, search_term, responsible, tags) ==
    {m \in files :
        /\ search_term # NULL
               => ilike(m.title, search_term) \/ ilike(m.filename, search_term)
        /\ responsible # NULL => m.responsible = responsible
        /\ tags # <<>> => Range(m.tags) \cap Range(tags) # {}}

\* a fallback that compares the filename as it is written
filename_matches_exactly(search_term, filename) ==
    contains(Chars(search_term), Chars(filename))

\* search_term_lower in filename.lower()
filename_matches(search_term, filename) ==
    contains(lower(Chars(search_term)), lower(Chars(filename)))

\* search_files_combined; db_order is the order the matching rows come back
\* in, glob_order the order the directory is listed in
search_files_combined(dir, files, search_term, responsible, tags, db_order, glob_order) ==
    LET physical_files == physical_files_of(dir)
        Unmatched(filename) ==
            /\ filename_matches(search_term, filename)
            /\ \A i \in 1..Len(db_order) : db_order[i].filename # filename
        appended == IF search_term # NULL THEN SelectSeq(glob_order, Unmatched) ELSE <<>>
        combined(filename, business) ==
            CombinedFileInfo(filename,
                             IF filename \in DOMAIN physical_files
                             THEN physical_files[filename] ELSE NoTechnicalData,
                             business)
    IN  [i \in 1..Len(db_order) |->
            combined(db_order[i].filename, business_data(db_order[i]))]
        \o [i \in 1..Len(appended) |-> combined(appended[i], NoBusinessData)]

\* GET /files without a filter (api/routes.py)
list_files(order) ==
    /\ last' = [op |-> "list_files",
                files |-> get_all_files_combined(parquet_dir, file_metadata, order)]
    /\ Step
    /\ UNCHANGED <<parquet_dir, column_metadata, column_metadata_id_seq,
                   file_metadata, file_metadata_id_seq, metadata_history>>

\* GET /files?search=...&responsible=...&tags=... (api/routes.py)
list_files_filtered(search, responsible, tags, db_order, glob_order) ==
    /\ search # NULL \/ responsible # NULL \/ tags # <<>>
    /\ last' = [op |-> "search_files", search |-> search,
                responsible |-> responsible, tags |-> tags,
                files |-> search_files_combined(parquet_dir, file_metadata, search,
                                                responsible, tags, db_order, glob_order)]
    /\ Step
    /\ UNCHANGED <<parquet_dir, column_metadata, column_metadata_id_seq,
                   file_metadata, file_metadata_id_seq, metadata_history>>

\* the modification times of the files on disk
Mtimes == 0..MaxMtime

\* a file on disk, last written at mtime
FileAt(mtime) == [exists |-> TRUE, columns |-> <<"b", "a">>, rows |-> 1, mtime |-> mtime]

\* the directories of the listing runs: f1 absent or written at any time, f2
\* absent or written at time 1
InitFiles ==
    /\ parquet_dir \in {[f \in FileNames |-> IF f = "f1" THEN e1
                                            ELSE IF f = "f2" THEN e2 ELSE NoFile] :
                            e1 \in {NoFile} \cup {FileAt(t) : t \in Mtimes},
                            e2 \in {NoFile, FileAt(1)}}
    /\ EmptyTables

\* the business metadata of the listing runs
ListedMetadata ==
    {[filename |-> f, title |-> "t1", responsible |-> NULL, permissions |-> "public",
      tags |-> <<>>] : f \in {"f1", "f3"}}
    \cup {[filename |-> f, title |-> "t2", responsible |-> "r1",
           permissions |-> "private", tags |-> <<"x">>] : f \in {"f2", "f3"}}

\* the filters of a search: a term, a responsible, tags
SearchRequests ==
    {<<"a", NULL, <<>>>>, <<"B", NULL, <<>>>>, <<"z", NULL, <<>>>>,
     <<NULL, "r1", <<>>>>, <<NULL, NULL, <<"x">>>>, <<"B", "r1", <<"x">>>>}

NextFiles ==
    \/ \E m \in ListedMetadata : create_metadata_route(m)
    \/ \E f \in FileNames : delete_metadata_route(f)
    \/ \E order \in Orders(all_filenames_of(parquet_dir, file_metadata)) : list_files(order)
    \/ \E q \in SearchRequests :
           \E db_order \in Orders(search_metadata(file_metadata, q[1], q[2], q[3])),
              glob_order \in Orders({f \in FileNames : parquet_dir[f].exists}) :
               list_files_filtered(q[1], q[2], q[3], db_order, glob_order)

SpecFiles == InitFiles /\ [][NextFiles]_vars

----------------------------------------------------------------------------
(* Properties of the combined file listing *)

\* the filenames on disk
OnDisk == {f \in DOMAIN parquet_dir : parquet_dir[f].exists}

\* the filenames with a FileMetadata row
WithMetadata == {m.filename : m \in file_metadata}

\* C12: the unfiltered listing holds exactly one record for every filename
\* that is on disk or has a FileMetadata row and no other record; a file on
\* disk without FileMetadata comes with title None, permissions "public" and
\* no tags, a FileMetadata row without a file on disk with empty technical
\* fields, and a filename with both with the fields of both.
C12_CombinedViewComplete ==
    (last.op = "list_files")
    => /\ Len(last.files) = Cardinality(OnDisk \cup WithMetadata)
       /\ {last.files[i].name : i \in 1..Len(last.files)} = OnDisk \cup WithMetadata
       /\ \A i \in 1..Len(last.files) :
              LET rec == last.files[i]
              IN  /\ rec.name \notin WithMetadata
                         => /\ rec.id = <<>>
                            /\ rec.title = NULL
                            /\ rec.permissions = "public"
                            /\ rec.tags = <<>>
                  /\ rec.name \notin OnDisk
                         => /\ rec.modified = <<>>
                            /\ rec.row_count = <<>>
                            /\ rec.column_count = <<>>
                            /\ rec.columns = <<>>
                  /\ rec.name \in OnDisk
                         => /\ rec.row_count = <<parquet_dir[rec.name].rows>>
                            /\ rec.columns = parquet_dir[rec.name].columns
                            /\ rec.modified # <<>>
                  /\ \A m \in file_metadata :
                         m.filename = rec.name
                         => /\ rec.id = <<m.id>>
                            /\ rec.title = m.title
                            /\ rec.permissions = m.permissions
                            /\ rec.tags = m.tags

\* a listing of a file without metadata, a file with metadata and a metadata
\* row without file
C12_Witness ==
    /\ last.op = "list_files"
    /\ Len(last.files) = 3
    /\ "f1" \in OnDisk \ WithMetadata
    /\ "f2" \in OnDisk \cap WithMetadata
    /\ "f3" \in WithMetadata \ OnDisk
    /\ \E i \in 1..3 : last.files[i].name = "f3" /\ last.files[i].title = "t2"

\* C13: the unfiltered listing is in descending order of modification time,
\* and every record without a timestamp comes after every record with one.
C13_ListingOrder ==
    (last.op = "list_files")
    => \A i \in 1..Len(last.files), j \in 1..Len(last.files) :
           LET x == last.files[i]
               y == last.files[j]
           IN  /\ (i < j /\ x.name \in OnDisk /\ y.name \in OnDisk)
                      => parquet_dir[x.name].mtime >= parquet_dir[y.name].mtime
               /\ (x.name \in OnDisk /\ y.name \notin OnDisk)
                      => /\ i < j
                         /\ x.modified # <<>>
                         /\ y.modified = <<>>

\* a file written at a whole second listed before an older one written at a
\* fraction of a second, and a record without a timestamp last
C13_Witness ==
    /\ last.op = "list_files"
    /\ Len(last.files) = 3
    /\ last.files[1].name = "f1"
    /\ parquet_dir["f1"].mtime = 2
    /\ last.files[2].name = "f2"
    /\ parquet_dir["f2"].mtime = 1
    /\ last.files[3].modified = <<>>

\* the (term, filename) pairs where the filename contains the term when
\* letter case is ignored: f1 reads "Ab" and f2 reads "b"
CaseInsensitiveMatches == {<<"a", "f1">>, <<"B", "f1">>, <<"B", "f2">>}

\* C14: a search returns at most one record per filename, and with a search
\* term every file on disk that has no FileMetadata row and whose filename
\* contains the term, letter case ignored, is in the result.
C14_SearchDiscoverability ==
    (last.op = "search_files")
    => /\ \A i \in 1..Len(last.files), j \in 1..Len(last.files) :
              last.files[i].name = last.files[j].name => i = j
       /\ \A f \in OnDisk \ WithMetadata :
              <<last.search, f>> \in CaseInsensitiveMatches
              => \E i \in 1..Len(last.files) : last.files[i].name = f

\* a term in another letter case than the filenames: it finds a file without
\* metadata by filename and a file with metadata once
C14_Witness ==
    /\ last.op = "search_files"
    /\ last.search = "B"
    /\ last.responsible = NULL
    /\ "f1" \in OnDisk \ WithMetadata
    /\ "f2" \in OnDisk \cap WithMetadata
    /\ Len(last.files) = 2
    /\ \E i \in 1..2 : last.files[i].name = "f1" /\ last.files[i].title = NULL

----------------------------------------------------------------------------
(* Overlapping creates of FileMetadata *)

\* POST /metadata up to the await of db.commit(): the row is added to the
\* client's session only; existed_at_add records, for the properties, whether
\* the filename had a row at that moment
create_metadata_begin(c, metadata) ==
    /\ in_flight[c] = Idle
    /\ file_metadata_id_seq
           + Cardinality({d \in Clients : in_flight[d].op = "create_metadata"}) < MaxFileId
    /\ in_flight' = [in_flight EXCEPT ![c] =
                         [op |-> "create_metadata", metadata |-> metadata,
                          existed_at_add |-> \E m \in file_metadata :
                                                 m.filename = metadata.filename]]
    /\ last' = [op |-> "await", client |-> c]
    /\ Tick
    /\ UNCHANGED <<parquet_dir, column_metadata, column_metadata_id_seq, file_metadata,
                   file_metadata_id_seq, metadata_history, db_sessions,
                   powerbi_projects, powerbi_exports, background_tasks,
                   duckdb_conn, event_loop>>

\* POST /metadata from db.commit() on: the INSERT, or the IntegrityError
\* turned into ValueError and answered with 400
create_metadata_commit(c) ==
    /\ in_flight[c].op = "create_metadata"
    /\ LET r == create_metadata(file_metadata, file_metadata_id_seq,
                                in_flight[c].metadata)
       IN  /\ file_metadata' = r.files
           /\ file_metadata_id_seq' = r.seq
           /\ last' = [op |-> "create_metadata",
                       filename |-> in_flight[c].metadata.filename,
                       status |-> IF r.raised = NULL THEN 200 ELSE 400,
                       existed_at_add |-> in_flight[c].existed_at_add]
    /\ in_flight' = [in_flight EXCEPT ![c] = Idle]
    /\ Tick
    /\ UNCHANGED <<parquet_dir, column_metadata, column_metadata_id_seq,
                   metadata_history, db_sessions, powerbi_projects, powerbi_exports,
                   background_tasks,
                   duckdb_conn, event_loop>>

\* the metadata of the overlapping creates: two titles for the same filename
RacingMetadata ==
    {[filename |-> f, title |-> t, responsible |-> NULL, permissions |-> "public",
      tags |-> <<>>] : f \in ManagedFiles, t \in {"t1", "t2"}}

NextCreate ==
    \/ \E c \in Clients, m \in RacingMetadata : create_metadata_begin(c, m)
    \/ \E c \in Clients : create_metadata_commit(c)
    \/ \E f \in ManagedFiles, patch \in {[responsible |-> "r1"], [tags |-> <<"x">>]} :
           update_metadata_route(f, patch, "api")
    \/ \E f \in ManagedFiles : delete_metadata_route(f)

SpecCreate == Init /\ [][NextCreate]_vars

\* C15: a create for a filename that already has a FileMetadata row, also
\* when the row was committed by another create while this one was in flight,
\* is answered with 400 and leaves the rows and the history as they were; a
\* create for a filename without a row is answered with 200 and adds one row;
\* at every moment there is at most one row per filename.
C15_DuplicateCreateIsValidationError ==
    [][/\ \A m \in file_metadata', n \in file_metadata' :
              m.filename = n.filename => m = n
       /\ (last'.op = "create_metadata")
          => LET existing == {m \in file_metadata : m.filename = last'.filename}
             IN  /\ existing # {}
                     => /\ last'.status = 400
                        /\ file_metadata' = file_metadata
                        /\ metadata_history' = metadata_history
                 /\ existing = {}
                     => /\ last'.status = 200
                        /\ Cardinality(file_metadata') = Cardinality(file_metadata) + 1
                        /\ file_metadata \subseteq file_metadata']_vars

\* a create that lost the race: the filename had no row when the request
\* added its own, and the row of the other create, updated since, is kept
C15_Witness ==
    /\ last.op = "create_metadata"
    /\ last.status = 400
    /\ ~last.existed_at_add
    /\ metadata_history # <<>>
    /\ \E m \in file_metadata : m.filename = last.filename /\ m.responsible = "r1"

----------------------------------------------------------------------------
(* Admin routes on FileMetadata and on the columns of a file *)

\* the status of an admin route whose body sits in try/except Exception: the
\* HTTPException(404) raised inside the try is itself caught and answered 500
status_in_try(found) == IF found THEN 200 ELSE 500

\* GET /api/admin/metadata/{filename}
get_file_metadata_for_admin(filename) ==
    LET file_info == {m \in file_metadata : m.filename = filename}
    IN  /\ last' = [op |-> "admin_get_metadata", filename |-> filename,
                    status |-> status_in_try(file_info # {})]
        /\ Step
        /\ UNCHANGED <<parquet_dir, column_metadata, column_metadata_id_seq,
                       file_metadata, file_metadata_id_seq, metadata_history>>

\* PUT /api/admin/metadata/{filename}
update_metadata_as_admin(filename, patch) ==
    LET r == update_metadata(file_metadata, metadata_history, filename, patch, "admin")
    IN  /\ Len(r.history) <= MaxHistory
        /\ file_metadata' = r.files
        /\ metadata_history' = r.history
        /\ last' = [op |-> "admin_update_metadata", filename |-> filename,
                    status |-> status_in_try(r.found)]
        /\ Step
        /\ UNCHANGED <<parquet_dir, column_metadata, column_metadata_id_seq,
                       file_metadata_id_seq>>

\* DELETE /api/admin/metadata/{filename}
delete_metadata_as_admin(filename) ==
    LET r == delete_metadata(file_metadata, metadata_history, filename)
    IN  /\ file_metadata' = r.files
        /\ metadata_history' = r.history
        /\ last' = [op |-> "admin_delete_metadata", filename |-> filename,
                    status |-> status_in_try(r.deleted)]
        /\ Step
        /\ UNCHANGED <<parquet_dir, column_metadata, column_metadata_id_seq,
                       file_metadata_id_seq>>

\* GET /api/admin/files/{filename}/columns
get_file_columns_admin_route(filename) ==
    LET r == get_file_columns_admin(parquet_dir, column_metadata, filename)
    IN  /\ last' = [op |-> "admin_columns", filename |-> filename,
                    status |-> StatusOf(r.raised),
                    total_columns |-> r.total_columns]
        /\ Step
        /\ UNCHANGED <<parquet_dir, column_metadata, column_metadata_id_seq,
                       file_metadata, file_metadata_id_seq, metadata_history>>

NextNotFound ==
    \/ \E m \in NewMetadata : create_metadata_route(m)
    \/ \E f \in Files : get_file_metadata_for_admin(f)
    \/ \E f \in Files, patch \in {[title |-> "t2"], [responsible |-> "r1"]} :
           update_metadata_as_admin(f, patch)
    \/ \E f \in Files : delete_metadata_as_admin(f)
    \/ \E f \in Files : get_file_columns_admin_route(f)
    \/ \E f \in Files : sync_file_columns_admin(f)

SpecNotFound == Init /\ [][NextNotFound]_vars

\* C16: an admin get, update or delete of the metadata of a filename without
\* a FileMetadata row, and an admin column listing or column sync of a file
\* that is not on disk, is answered with 404.
C16_NotFoundIsDistinct ==
    [][/\ (/\ last'.op \in {"admin_get_metadata", "admin_update_metadata",
                            "admin_delete_metadata"}
           /\ \A m \in file_metadata : m.filename # last'.filename)
          => last'.status = 404
       /\ (/\ last'.op \in {"admin_columns", "sync"}
           /\ ~parquet_dir[last'.filename].exists)
          => last'.status = 404]_vars

----------------------------------------------------------------------------
(* Power BI projects and exports: the hand-off to background tasks *)

MaxProjects == 2
MaxExports == 2

ExportTypes == {"pbit", "xmla", "json"}

\* process_parquet_files_task: the project ends 'ready', or 'error' when the
\* processing raised; a project that is gone is left alone
process_parquet_files_task(projects, project_id, ok) ==
    [i \in DOMAIN projects |->
        IF projects[i].id = project_id
        THEN [projects[i] EXCEPT !.status = IF ok THEN "ready" ELSE "error"]
        ELSE projects[i]]

\* export_project_task: the export record ends 'success' or 'error'
export_project_task(exports, export_id, ok) ==
    [i \in DOMAIN exports |->
        IF exports[i].id = export_id
        THEN [exports[i] EXCEPT !.export_status = IF ok THEN "success" ELSE "error"]
        ELSE exports[i]]

\* POST /projects. valid: the upload passes the checks on the files; saved: the
\* files are written to the project directory. The BackgroundTasks object the
\* task is added to is a local of the handler, so nothing is handed to the
\* response: background_tasks stays as it is.
create_project(valid, saved) ==
    /\ Len(powerbi_projects) < MaxProjects
    /\ LET project == [id |-> Len(powerbi_projects) + 1, status |-> "processing"]
       IN  IF ~valid
           THEN /\ last' = [op |-> "create_project", status |-> 400, project_id |-> 0]
                /\ UNCHANGED powerbi_projects
           ELSE IF ~saved
           THEN \* the project row is deleted again
                /\ last' = [op |-> "create_project", status |-> 500, project_id |-> 0]
                /\ UNCHANGED powerbi_projects
           ELSE /\ last' = [op |-> "create_project", status |-> 200,
                            project_id |-> project.id]
                /\ powerbi_projects' = Append(powerbi_projects, project)
    /\ Tick
    /\ UNCHANGED <<parquet_dir, column_metadata, column_metadata_id_seq, file_metadata,
                   file_metadata_id_seq, metadata_history, in_flight, db_sessions,
                   powerbi_exports, background_tasks,
                   duckdb_conn, event_loop>>

\* POST /projects/{project_id}/export: the task is added to the BackgroundTasks
\* of the request, which runs it after the response
export_project(project_id, export_type) ==
    /\ Len(powerbi_exports) < MaxExports
    /\ LET found == {i \in DOMAIN powerbi_projects : powerbi_projects[i].id = project_id}
           export_record == [id |-> Len(powerbi_exports) + 1, project_id |-> project_id,
                             export_type |-> export_type,
                             export_status |-> "processing"]
       IN  IF found = {}
           THEN /\ last' = [op |-> "export_project", status |-> 404, export_id |-> 0]
                /\ UNCHANGED <<powerbi_exports, background_tasks>>
           ELSE IF powerbi_projects[CHOOSE i \in found : TRUE].status # "ready"
                   \/ export_type \notin ExportTypes
           THEN /\ last' = [op |-> "export_project", status |-> 400, export_id |-> 0]
                /\ UNCHANGED <<powerbi_exports, background_tasks>>
           ELSE /\ last' = [op |-> "export_project", status |-> 200,
                            export_id |-> export_record.id]
                /\ powerbi_exports' = Append(powerbi_exports, export_record)
                /\ background_tasks' =
                       Append(background_tasks,
                              [task |-> "export_project_task",
                               project_id |-> project_id,
                               export_id |-> export_record.id])
    /\ Tick
    /\ UNCHANGED <<parquet_dir, column_metadata, column_metadata_id_seq, file_metadata,
                   file_metadata_id_seq, metadata_history, in_flight, db_sessions,
                   powerbi_projects, duckdb_conn, event_loop>>

\* the server runs a task that was handed to a response; ok: the task's work
\* went through without an exception
run_background_task(n, ok) ==
    /\ n \in DOMAIN background_tasks
    /\ LET t == background_tasks[n]
       IN  /\ powerbi_projects' =
                  IF t.task = "process_parquet_files_task"
                  THEN process_parquet_files_task(powerbi_projects, t.project_id, ok)
                  ELSE powerbi_projects
           /\ powerbi_exports' =
                  IF t.task = "export_project_task"
                  THEN export_project_task(powerbi_exports, t.export_id, ok)
                  ELSE powerbi_exports
           /\ last' = [op |-> "background_task", task |-> t.task]
    /\ background_tasks' = [i \in 1..(Len(background_tasks) - 1) |->
                               IF i < n THEN background_tasks[i]
                               ELSE background_tasks[i + 1]]
    /\ Tick
    /\ UNCHANGED <<parquet_dir, column_metadata, column_metadata_id_seq, file_metadata,
                   file_metadata_id_seq, metadata_history, in_flight, db_sessions,
                   duckdb_conn, event_loop>>

RunBackgroundTasks == \E n \in 1..MaxExports, ok \in BOOLEAN : run_background_task(n, ok)

\* the projects table as the server finds it: empty, or with the row of a
\* project in status 'ready'
StoredProjects == {<<>>, <<[id |-> 1, status |-> "ready"]>>}

InitPowerBI ==
    /\ parquet_dir = Disk(MaxRows)
    /\ column_metadata = {}
    /\ column_metadata_id_seq = 0
    /\ file_metadata = {}
    /\ file_metadata_id_seq = 0
    /\ metadata_history = <<>>
    /\ last = [op |-> "init"]
    /\ tick = 0
    /\ in_flight = [c \in Clients |-> Idle]
    /\ db_sessions = [c \in Clients |-> NoSession]
    /\ powerbi_projects \in StoredProjects
    /\ powerbi_exports = <<>>
    /\ background_tasks = <<>>
    /\ duckdb_conn = NoConnection
    /\ event_loop = "free"

NextPowerBI ==
    \/ \E valid \in BOOLEAN, saved \in BOOLEAN : create_project(valid, saved)
    \/ \E project_id \in 1..(MaxProjects + 1), export_type \in ExportTypes \cup {"csv"} :
           export_project(project_id, export_type)
    \/ RunBackgroundTasks

\* a task handed to a response is run by the server
SpecPowerBI ==
    /\ InitPowerBI
    /\ [][NextPowerBI]_vars
    /\ WF_vars(RunBackgroundTasks)

\* the stored status of project i and of export record i, "" while not stored
project_status(i) ==
    IF i \in DOMAIN powerbi_projects THEN powerbi_projects[i].status ELSE ""

export_status(i) ==
    IF i \in DOMAIN powerbi_exports THEN powerbi_exports[i].export_status ELSE ""

\* C17: a project stored with status 'processing' eventually has status
\* 'ready' or 'error', and an export record stored with status 'processing'
\* eventually has status 'success' or 'error'.
C17_BackgroundHandoff ==
    /\ \A i \in 1..MaxProjects :
           (project_status(i) = "processing") ~> (project_status(i) \in {"ready", "error"})
    /\ \A i \in 1..MaxExports :
           (export_status(i) = "processing") ~> (export_status(i) \in {"success", "error"})

\* the export half on its own: every export record leaves 'processing'
ExportsLeaveProcessing ==
    \A i \in 1..MaxExports :
        (export_status(i) = "processing") ~> (export_status(i) \in {"success", "error"})

----------------------------------------------------------------------------
(* Overlapping calls of AdminService.update_column_metadata *)

\* PUT /files/{filename}/columns/{column_name} up to the await of db.commit():
\* the SELECT has loaded the row of the key, if there is one, into the session
update_column_begin(c, filename, column_name, updates) ==
    /\ in_flight[c] = Idle
    /\ in_flight' = [in_flight EXCEPT ![c] =
                         [op |-> "update_column", filename |-> filename,
                          column |-> column_name, updates |-> updates,
                          existing |-> RowsOfKey(column_metadata, filename, column_name)]]
    /\ last' = [op |-> "await", client |-> c]
    /\ Tick
    /\ UNCHANGED <<parquet_dir, column_metadata, column_metadata_id_seq, file_metadata,
                   file_metadata_id_seq, metadata_history, db_sessions,
                   powerbi_projects, powerbi_exports, background_tasks,
                   duckdb_conn, event_loop>>

\* the flush of a loaded row: the UPDATE sets the attributes whose value
\* differs from the loaded one, on the row as it is stored now
flush_update(rows, loaded, updates) ==
    LET net == {k \in DOMAIN updates \cap ColumnMetadataFields : updates[k] # loaded[k]}
        stored == CHOOSE r \in rows : r.id = loaded.id
    IN  [k \in ColumnMetadataFields |-> IF k \in net THEN updates[k] ELSE stored[k]]

\* the same handler from db.commit() on
update_column_commit(c) ==
    /\ in_flight[c].op = "update_column"
    /\ LET req == in_flight[c]
           failed == [rows |-> column_metadata, seq |-> column_metadata_id_seq,
                      raised |-> TRUE, action |-> "error", metadata_id |-> 0]
           r == IF req.existing = {}
                THEN \* the INSERT, against the table as it is now
                     update_column_metadata(
                         column_metadata \ RowsOfKey(column_metadata, req.filename,
                                                     req.column),
                         column_metadata_id_seq, req.filename, req.column, req.updates)
                ELSE LET loaded == CHOOSE e \in req.existing : TRUE
                         changed == flush_update(column_metadata, loaded, req.updates)
                     IN  IF StoreRejects(changed)
                         THEN failed
                         ELSE [rows |-> {x \in column_metadata : x.id # loaded.id}
                                            \cup {changed},
                               seq |-> column_metadata_id_seq, raised |-> FALSE,
                               action |-> "updated", metadata_id |-> loaded.id]
           lost == /\ req.existing = {}
                   /\ RowsOfKey(column_metadata, req.filename, req.column) # {}
       IN  IF lost \/ r.raised
           THEN \* uq_filename_column, or the store rejects the value: rollback
                /\ UNCHANGED <<column_metadata, column_metadata_id_seq>>
                /\ last' = [op |-> "update_column_commit", filename |-> req.filename,
                            column |-> req.column, updates |-> req.updates,
                            status |-> 500, action |-> "error"]
           ELSE /\ column_metadata' =
                       IF req.existing = {}
                       THEN column_metadata \cup r.rows
                       ELSE r.rows
                /\ column_metadata_id_seq' = r.seq
                /\ last' = [op |-> "update_column_commit", filename |-> req.filename,
                            column |-> req.column, updates |-> req.updates,
                            status |-> 200, action |-> r.action]
    /\ in_flight' = [in_flight EXCEPT ![c] = Idle]
    /\ Tick
    /\ UNCHANGED <<parquet_dir, file_metadata, file_metadata_id_seq, metadata_history,
                   db_sessions, powerbi_projects, powerbi_exports, background_tasks,
                   duckdb_conn, event_loop>>

\* what the overlapping calls send for column c
RacingUpdates(c) ==
    {[display_name |-> c],
     [display_name |-> Custom(c)],
     [is_visible |-> FALSE],
     [display_name |-> Custom(c), is_visible |-> TRUE],
     [display_name |-> TooLong]}

NextRace ==
    \/ \E c \in Clients, f \in ManagedFiles, col \in Cols : \E u \in RacingUpdates(col) :
           update_column_begin(c, f, col, u)
    \/ \E c \in Clients : update_column_commit(c)

SpecRace == Init /\ [][NextRace]_vars

\* C18: when a call of update_column_metadata commits and no other call is
\* in flight any more, there is exactly one row for its key; the row holds the
\* value of every field the call supplied, and the fields it did not supply
\* are as the earlier commits left them.
C18_LastCommittedWriteWins ==
    [][(/\ last'.op = "update_column_commit"
        /\ last'.status = 200
        /\ \A c \in Clients : in_flight'[c] = Idle)
       => LET before == RowsOfKey(column_metadata, last'.filename, last'.column)
              after == RowsOfKey(column_metadata', last'.filename, last'.column)
          IN  /\ Cardinality(after) = 1
              /\ \A row \in after :
                     /\ \A k \in DOMAIN last'.updates : row[k] = last'.updates[k]
                     /\ \A old \in before :
                            \A k \in ColumnMetadataFields \ DOMAIN last'.updates :
                                row[k] = old[k]]_vars

----------------------------------------------------------------------------
(* core.database: the session of a request *)

\* what a handler calls on its session before it ends: nothing (a read),
\* commit (a write that went through) or rollback (the except branch of a
\* service method)
HandlerCalls == {<<>>, <<"commit">>, <<"rollback">>}

\* get_postgres_session resumed after its yield: commit, then the finally;
\* a commit that raises goes through the except branch first
resumed_after_yield(calls, commit_ok) ==
    IF commit_ok
    THEN calls \o <<"commit", "close">>
    ELSE calls \o <<"commit", "rollback", "close">>

\* get_postgres_session closed at its yield: GeneratorExit is not an
\* Exception, so only the finally runs
closed_at_yield(calls) == calls \o <<"close">>

\* Depends(get_db_session): get_db_session iterates get_postgres_session,
\* which opens the session and yields it
get_db_session(c) ==
    /\ db_sessions[c].state \in {"none", "closed"}
    /\ db_sessions' = [db_sessions EXCEPT ![c] =
                           [state |-> "open", request |-> "running", calls |-> <<>>]]
    /\ last' = [op |-> "get_db_session", client |-> c]
    /\ Tick
    /\ UNCHANGED <<parquet_dir, column_metadata, column_metadata_id_seq, file_metadata,
                   file_metadata_id_seq, metadata_history, in_flight,
                   powerbi_projects, powerbi_exports, background_tasks,
                   duckdb_conn, event_loop>>

\* the handler returns: get_db_session is resumed, its async for asks
\* get_postgres_session for the next session, which runs the code after the
\* yield and ends
request_returns(c, handler_calls, commit_ok) ==
    /\ db_sessions[c].state = "open"
    /\ db_sessions[c].request = "running"
    /\ db_sessions' = [db_sessions EXCEPT ![c] =
                           [state |-> "closed",
                            request |-> IF commit_ok THEN "returned" ELSE "raised",
                            calls |-> resumed_after_yield(handler_calls, commit_ok)]]
    /\ last' = [op |-> "request_returns", client |-> c]
    /\ Tick
    /\ UNCHANGED <<parquet_dir, column_metadata, column_metadata_id_seq, file_metadata,
                   file_metadata_id_seq, metadata_history, in_flight,
                   powerbi_projects, powerbi_exports, background_tasks,
                   duckdb_conn, event_loop>>

\* the handler raises: the exception is raised in get_db_session at its own
\* yield, inside the body of the async for, and leaves get_db_session;
\* get_postgres_session stays suspended at its yield, no longer referenced
request_raises(c, handler_calls) ==
    /\ db_sessions[c].state = "open"
    /\ db_sessions[c].request = "running"
    /\ db_sessions' = [db_sessions EXCEPT ![c] =
                           [state |-> "open", request |-> "raised",
                            calls |-> handler_calls]]
    /\ last' = [op |-> "request_raises", client |-> c]
    /\ Tick
    /\ UNCHANGED <<parquet_dir, column_metadata, column_metadata_id_seq, file_metadata,
                   file_metadata_id_seq, metadata_history, in_flight,
                   powerbi_projects, powerbi_exports, background_tasks,
                   duckdb_conn, event_loop>>

\* the event loop finalizes the unreferenced generator: aclose()
finalize_session_generator(c) ==
    /\ db_sessions[c].state = "open"
    /\ db_sessions[c].request = "raised"
    /\ db_sessions' = [db_sessions EXCEPT ![c] =
                           [state |-> "closed", request |-> "raised",
                            calls |-> closed_at_yield(db_sessions[c].calls)]]
    /\ last' = [op |-> "finalize", client |-> c]
    /\ Tick
    /\ UNCHANGED <<parquet_dir, column_metadata, column_metadata_id_seq, file_metadata,
                   file_metadata_id_seq, metadata_history, in_flight,
                   powerbi_projects, powerbi_exports, background_tasks,
                   duckdb_conn, event_loop>>

RequestEnds(c) ==
    \/ \E handler_calls \in HandlerCalls, commit_ok \in BOOLEAN :
           request_returns(c, handler_calls, commit_ok)
    \/ \E handler_calls \in HandlerCalls : request_raises(c, handler_calls)

NextSession ==
    \/ \E c \in Clients : get_db_session(c)
    \/ \E c \in Clients : RequestEnds(c)
    \/ \E c \in Clients : finalize_session_generator(c)

\* every request ends, and the event loop goes on running
SpecSession ==
    /\ Init
    /\ [][NextSession]_vars
    /\ \A c \in Clients : WF_vars(RequestEnds(c))
    /\ \A c \in Clients : WF_vars(finalize_session_generator(c))

\* the session of client c was rolled back before it was closed
rolled_back_before_close(c) ==
    \E i \in DOMAIN db_sessions[c].calls, j \in DOMAIN db_sessions[c].calls :
        /\ i < j
        /\ db_sessions[c].calls[i] = "rollback"
        /\ db_sessions[c].calls[j] = "close"

\* C19: every session that was opened is eventually closed, whether its
\* request returned or raised; the session of a request that raised has been
\* rolled back before it was closed.
C19_ScopedSessionRelease ==
    /\ \A c \in Clients :
           (db_sessions[c].state = "open") ~> (db_sessions[c].state = "closed")
    /\ [](\A c \in Clients :
              (db_sessions[c].state = "closed" /\ db_sessions[c].request = "raised")
              => rolled_back_before_close(c))

\* the release on its own: every session that was opened is eventually closed
SessionsEventuallyClosed ==
    \A c \in Clients :
        (db_sessions[c].state = "open") ~> (db_sessions[c].state = "closed")

----------------------------------------------------------------------------
(* Properties of the rows a sync creates *)

\* C20: a successful sync gives every physical column that had no row a row
\* with display_name = the original name, is_visible = TRUE and sort_order =
\* the number of rows the file had before the sync + the position of the
\* column among the new columns only, in physical order, counted from 0.
C20_SyncedSortOrder ==
    [][(last'.op = "sync" /\ last'.status = 200)
       => LET schema == parquet_dir[last'.filename].columns
              before == RowsOf(column_metadata, last'.filename)
              IsNew(i) == RowsOfKey(column_metadata, last'.filename, schema[i]) = {}
          IN  \A i \in DOMAIN schema :
                  IsNew(i)
                  => \E row \in RowsOfKey(column_metadata', last'.filename, schema[i]) :
                         /\ row.display_name = schema[i]
                         /\ row.is_visible = TRUE
                         /\ row.sort_order =
                                Cardinality(before)
                                + Cardinality({j \in DOMAIN schema : j < i /\ IsNew(j)})]_vars

----------------------------------------------------------------------------
(* Column rows next to the business metadata of their file *)

\* the single-column updates of the retention runs
RetentionUpdates(c) == {[display_name |-> Custom(c), description |-> "d"],
                        [is_visible |-> FALSE]}

NextRetention ==
    \/ AdminNext([c \in Cols |-> RetentionUpdates(c)], ListsUpTo(1))
    \/ \E m \in NewMetadata : create_metadata_route(m)
    \/ \E f \in Files : delete_metadata_route(f)

SpecRetention == Init /\ [][NextRetention]_vars

\* C21: no request removes a ColumnMetadata row: every row is still there,
\* under the same id and key, after every step; a sync changes nothing but
\* is_visible, to FALSE, on the rows of columns that are no longer in the file;
\* deleting the FileMetadata of a file leaves every ColumnMetadata row as it is.
C21_ColumnRowsNeverDeleted ==
    [][/\ \A r \in column_metadata :
              \E s \in column_metadata' :
                  /\ s.id = r.id
                  /\ s.filename = r.filename
                  /\ s.original_column_name = r.original_column_name
                  /\ (last'.op = "sync" /\ s # r)
                     => /\ s = [r EXCEPT !.is_visible = FALSE]
                        /\ r.filename = last'.filename
                        /\ r.original_column_name
                               \notin Range(parquet_dir[last'.filename].columns)
       /\ (last'.op = "delete_metadata") => column_metadata' = column_metadata]_vars

\* the FileMetadata of f1 has just been deleted while f1 keeps a described
\* column row that a sync has hidden because the column left the file
C21_Witness ==
    /\ last.op = "delete_metadata"
    /\ last.status = 200
    /\ \E r \in RowsOf(column_metadata, last.filename) :
           /\ r.original_column_name \notin Range(parquet_dir[last.filename].columns)
           /\ ~r.is_visible
           /\ r.description = "d"

----------------------------------------------------------------------------
(* The shared DuckDB connection under the event loop *)

\* DatabaseManager.get_duckdb_connection: connect once, then the same handle
get_duckdb_connection(conn) ==
    IF conn.handle = 0 THEN [conn EXCEPT !.handle = 1] ELSE conn

\* the positions of a data request at which it is inside duckdb_conn.execute
Statements == {"describe", "data_query", "count_query"}

\* the next position of a data request: awaiting the SELECT of the display
\* schema ("schema"); without visible rows the DESCRIBE of
\* get_file_columns_admin and the await of its SELECT ("columns"); then the
\* data query and the count query
next_pc(pc, has_visible) ==
    IF pc = "schema" THEN (IF has_visible THEN "data_query" ELSE "describe")
    ELSE IF pc = "describe" THEN "columns"
    ELSE IF pc = "columns" THEN "data_query"
    ELSE IF pc = "data_query" THEN "count_query"
    ELSE "done"

\* an execute() that is awaited in a worker thread: the event loop is free
loop_released_during_execute(c) == "free"

\* duckdb_conn.execute(...) is a plain call: the coroutine keeps the event loop
loop_during_execute(c) == c

\* the event loop can run, or go on running, the coroutine of client c
may_run(c) == event_loop \in {"free", c}

\* GET /files/{filename}/data/enhanced up to its first await: the dependency
\* get_file_service takes the connection, the handler checks the file
get_file_data_start(c, filename, columns) ==
    /\ in_flight[c] = Idle
    /\ may_run(c)
    /\ duckdb_conn' = get_duckdb_connection(duckdb_conn)
    /\ IF ~parquet_dir[filename].exists
       THEN /\ last' = [op |-> "file_data_step", client |-> c, pc |-> "done",
                        raised |-> "FileNotFoundError"]
            /\ UNCHANGED in_flight
       ELSE /\ last' = [op |-> "file_data_step", client |-> c, pc |-> "schema",
                        raised |-> NULL]
            /\ in_flight' = [in_flight EXCEPT ![c] =
                                 [op |-> "get_file_data", pc |-> "schema",
                                  handle |-> duckdb_conn'.handle,
                                  filename |-> filename, columns |-> columns]]
    /\ event_loop' = "free"
    /\ Tick
    /\ UNCHANGED <<parquet_dir, column_metadata, column_metadata_id_seq, file_metadata,
                   file_metadata_id_seq, metadata_history, db_sessions,
                   powerbi_projects, powerbi_exports, background_tasks>>

\* the coroutine goes on to its next position; after the count query the
\* response is built and the request is over
get_file_data_step(c) ==
    /\ in_flight[c].op = "get_file_data"
    /\ may_run(c)
    /\ LET req == in_flight[c]
           has_visible == \E r \in RowsOf(column_metadata, req.filename) : r.is_visible
           pc == next_pc(req.pc, has_visible)
           r == get_file_data_with_display_names(parquet_dir, column_metadata,
                                                 req.filename, 1, MaxPageSize, req.columns)
       IN  /\ duckdb_conn' = [duckdb_conn EXCEPT !.executing =
                                  IF pc \in Statements THEN @ \cup {c} ELSE @ \ {c}]
           /\ event_loop' = IF pc \in Statements THEN loop_during_execute(c) ELSE "free"
           /\ in_flight' = [in_flight EXCEPT ![c] =
                                IF pc = "done" THEN Idle ELSE [req EXCEPT !.pc = pc]]
           /\ last' = IF pc = "done"
                      THEN [op |-> "file_data_step", client |-> c, pc |-> pc,
                            raised |-> r.raised, columns |-> r.columns,
                            total_rows |-> r.total_rows]
                      ELSE [op |-> "file_data_step", client |-> c, pc |-> pc,
                            raised |-> NULL]
    /\ Tick
    /\ UNCHANGED <<parquet_dir, column_metadata, column_metadata_id_seq, file_metadata,
                   file_metadata_id_seq, metadata_history, db_sessions,
                   powerbi_projects, powerbi_exports, background_tasks>>

NextEngine ==
    \/ \E f \in ManagedFiles, col \in Cols : \E u \in FewColumnUpdates(col) :
           event_loop = "free" /\ update_column_metadata_admin(f, col, u)
    \/ \E c \in Clients, f \in Files, columns \in ColumnRequests :
           get_file_data_start(c, f, columns)
    \/ \E c \in Clients : get_file_data_step(c)

SpecEngine == Init /\ [][NextEngine]_vars

\* C22: at most one request is inside a statement of the shared DuckDB
\* connection at any time, and every request in flight holds the one handle
\* that get_duckdb_connection has created.
C22_SerializedEngineAccess ==
    /\ Cardinality(duckdb_conn.executing) <= 1
    /\ duckdb_conn.handle \in {0, 1}
    /\ \A c \in Clients :
           in_flight[c].op = "get_file_data" => in_flight[c].handle = duckdb_conn.handle

\* one request is inside its data query while the other, which started
\* earlier, waits at an await
C22_Witness ==
    \E c \in Clients, d \in Clients :
        /\ c # d
        /\ in_flight[c].op = "get_file_data"
        /\ in_flight[c].pc = "data_query"
        /\ c \in duckdb_conn.executing
        /\ in_flight[d].op = "get_file_data"
        /\ in_flight[d].pc \in {"schema", "columns"}

----------------------------------------------------------------------------
(* Hidden columns in the data of a file *)

\* C23: a data query that succeeds returns no physical column whose
\* ColumnMetadata row has is_visible = FALSE, neither in its columns list
\* nor as a key of its records, whatever column list was requested.
C23_HiddenColumnsNeverReturned ==
    (last.op = "file_data" /\ last.raised = NULL)
    => \A r \in RowsOf(column_metadata, last.filename) :
           ~r.is_visible
           => /\ r.original_column_name \notin Range(last.columns)
              /\ \A k \in 1..Len(last.data) :
                     r.original_column_name \notin DOMAIN last.data[k]

----------------------------------------------------------------------------
(* Updates whose dictionary names key attributes *)

\* the body of the PUT is any dictionary: every key that is an attribute of
\* the row is assigned
KeyedUpdates(c) ==
    {[is_visible |-> FALSE],
     [filename |-> "f2"],
     [original_column_name |-> IF c = "a" THEN "b" ELSE "a"]}

NextKeys ==
    \/ \E f \in ManagedFiles, c \in Cols : \E u \in KeyedUpdates(c) :
           update_column_metadata_admin(f, c, u)
    \/ \E f \in ManagedFiles, c \in Cols : reset_column_metadata_admin(f, c)

SpecKeys == Init /\ [][NextKeys]_vars

\* C24: a successful update of an existing row leaves the row under the same
\* id, filename and original_column_name, whatever keys the updates carry.
C24_KeyImmutability ==
    [][(last'.op = "update_column" /\ last'.status = 200 /\ last'.action = "updated")
       => \A e \in RowsOfKey(column_metadata, last'.filename, last'.column) :
              \E n \in column_metadata' :
                  /\ n.id = e.id
                  /\ n.filename = e.filename
                  /\ n.original_column_name = e.original_column_name]_vars

\* C25: every record a search returns satisfies the responsible filter and
\* the tags filter that were given, and a record whose filename has a
\* FileMetadata row carries the title, responsible, permissions and tags of
\* that row.
C25_SearchHonoursFilters ==
    (last.op = "search_files")
    => \A i \in 1..Len(last.files) :
           /\ last.responsible # NULL => last.files[i].responsible = last.responsible
           /\ last.tags # <<>> => Range(last.files[i].tags) \cap Range(last.tags) # {}
           /\ \A m \in file_metadata :
                  m.filename = last.files[i].name
                  => /\ last.files[i].title = m.title
                     /\ last.files[i].responsible = m.responsible
                     /\ last.files[i].permissions = m.permissions
                     /\ last.files[i].tags = m.tags

----------------------------------------------------------------------------
(* FileService.get_file_schema_with_display_names *)

get_file_schema_with_display_names(dir, rows, filename) ==
    IF ~dir[filename].exists
    THEN [raised |-> "FileNotFoundError", has_custom_names |-> FALSE, schema |-> <<>>]
    ELSE LET basic_schema == dir[filename].columns
             \* only the rows with is_visible == True are selected
             metadata_list == {r \in RowsOf(rows, filename) : r.is_visible}
             enhanced_col(original_name) ==
                 LET found == {r \in metadata_list : r.original_column_name = original_name}
                 IN  IF found # {}
                     THEN LET custom_info == CHOOSE r \in found : TRUE
                          IN  [original_name |-> original_name,
                               display_name |-> custom_info.display_name,
                               description |-> custom_info.description,
                               is_visible |-> custom_info.is_visible,
                               has_custom_metadata |-> TRUE]
                     ELSE [original_name |-> original_name,
                           display_name |-> original_name,
                           description |-> "",
                           is_visible |-> TRUE,
                           has_custom_metadata |-> FALSE]
         IN  [raised |-> NULL,
              has_custom_names |-> metadata_list # {},
              schema |-> [i \in 1..Len(basic_schema) |-> enhanced_col(basic_schema[i])]]

\* GET /files/{filename}/schema/enhanced
get_file_schema_enhanced(filename) ==
    LET r == get_file_schema_with_display_names(parquet_dir, column_metadata, filename)
    IN  /\ last' = [op |-> "file_schema", filename |-> filename, raised |-> r.raised,
                    has_custom_names |-> r.has_custom_names, schema |-> r.schema]
        /\ Step
        /\ UNCHANGED <<parquet_dir, column_metadata, column_metadata_id_seq,
                       file_metadata, file_metadata_id_seq, metadata_history>>

NextSchema ==
    \/ \E f \in ManagedFiles, c \in Cols : \E u \in DataColumnUpdates(c) :
           update_column_metadata_admin(f, c, u)
    \/ \E f \in Files, s \in Schemas : SchemaChange(f, s)
    \/ \E f \in Files : get_file_schema_enhanced(f)
    \/ \E f \in Files : get_columns_display_schema_admin(f)

SpecSchema == Init /\ [][NextSchema]_vars

\* C26: the enhanced schema of a file and its display schema, taken in the
\* same state, report the same has_custom_names, and a physical column is
\* reported with is_visible = TRUE by the enhanced schema exactly when it is a
\* column of the display schema.
C26_SchemaViewsAgree ==
    (last.op = "file_schema" /\ last.raised = NULL)
    => LET display == get_columns_display_schema(parquet_dir, column_metadata,
                                                 last.filename)
           shown == {display.columns[i].original_name : i \in 1..Len(display.columns)}
       IN  /\ display.raised = NULL
           /\ last.has_custom_names = display.has_custom_names
           /\ \A i \in 1..Len(last.schema) :
                  last.schema[i].is_visible <=> last.schema[i].original_name \in shown

\* the first half on its own: the two views report the same has_custom_names
SchemaViewsAgreeOnCustomNames ==
    (last.op = "file_schema" /\ last.raised = NULL)
    => last.has_custom_names
           = get_columns_display_schema(parquet_dir, column_metadata,
                                        last.filename).has_custom_names

----------------------------------------------------------------------------
(* Overlapping calls of MetadataService.update_metadata *)

\* PUT /metadata/{filename} up to the awaits that write: the SELECT has loaded
\* the current row; without a row the answer is 404, without a field to
\* write the row is returned as it is
update_metadata_begin(c, filename, patch, changed_by) ==
    /\ in_flight[c] = Idle
    /\ LET found == {m \in file_metadata : m.filename = filename}
           update_data == update_data_of(patch)
       IN  IF found = {} \/ DOMAIN update_data = {}
           THEN /\ last' = [op |-> "update_metadata_begin", client |-> c,
                            status |-> IF found = {} THEN 404 ELSE 200]
                /\ UNCHANGED in_flight
           ELSE /\ last' = [op |-> "await", client |-> c]
                /\ in_flight' = [in_flight EXCEPT ![c] =
                                     [op |-> "update_metadata", filename |-> filename,
                                      update_data |-> update_data,
                                      changed_by |-> changed_by,
                                      current |-> CHOOSE m \in found : TRUE]]
    /\ Tick
    /\ UNCHANGED <<parquet_dir, column_metadata, column_metadata_id_seq, file_metadata,
                   file_metadata_id_seq, metadata_history, db_sessions,
                   powerbi_projects, powerbi_exports, background_tasks,
                   duckdb_conn, event_loop>>

\* the same call from _record_history_changes on: the history rows are built
\* from the row the SELECT loaded, the UPDATE writes update_data on the row
\* the filename has now, and both are committed
update_metadata_commit(c) ==
    /\ in_flight[c].op = "update_metadata"
    /\ LET req == in_flight[c]
           added == record_history_changes(req.current, req.update_data,
                                           req.changed_by, 1)
           write(m) == IF m.filename = req.filename
                       THEN [k \in FileMetadataFields |->
                                IF k \in DOMAIN req.update_data THEN req.update_data[k]
                                ELSE m[k]]
                       ELSE m
       IN  /\ Len(metadata_history) + Len(added) <= MaxHistory
           /\ metadata_history' = metadata_history \o added
           /\ file_metadata' = {write(m) : m \in file_metadata}
           /\ last' = [op |-> "update_metadata_commit", client |-> c,
                       filename |-> req.filename, status |-> 200]
    /\ in_flight' = [in_flight EXCEPT ![c] = Idle]
    /\ Tick
    /\ UNCHANGED <<parquet_dir, column_metadata, column_metadata_id_seq,
                   file_metadata_id_seq, db_sessions, powerbi_projects,
                   powerbi_exports, background_tasks, duckdb_conn, event_loop>>

RacingPatches == {EmptyDict, [title |-> "t1"], [title |-> "t2"], [responsible |-> "r1"]}

NextHistory ==
    \/ \E m \in NewMetadata : create_metadata_route(m)
    \/ \E c \in Clients, f \in Files, patch \in RacingPatches, who \in Actors :
           update_metadata_begin(c, f, patch, who)
    \/ \E c \in Clients : update_metadata_commit(c)

SpecHistory == Init /\ [][NextHistory]_vars

\* the history rows of field `field` of the file with id `file_id`, in commit order
history_of(file_id, field) ==
    LET Same(h) == h.file_id = file_id /\ h.field_changed = field
    IN  SelectSeq(metadata_history, Same)

\* C27: for every file and field the history rows, in commit order, form a
\* chain: the old_value of each row is the new_value of the row before it, and
\* the new_value of the last row is the value the field has in the stored row.
C27_HistoryChain ==
    \A m \in file_metadata, field \in UpdateFields :
        LET rows == history_of(m.id, field)
        IN  /\ \A i \in 2..Len(rows) : rows[i].old_value = rows[i - 1].new_value
            /\ rows # <<>> => rows[Len(rows)].new_value = Str(field, m[field])

----------------------------------------------------------------------------
(* The state a sync leaves *)

\* C28: right after a successful sync every physical column of the file has
\* a row, every row of the file whose column is not in the physical file has
\* is_visible = FALSE, and every column of the display schema is a physical
\* column; a sync that fails leaves the rows as they were.
C28_SyncPostCondition ==
    [][(last'.op = "sync")
       => IF last'.status = 200
          THEN LET f == last'.filename
                   physical == Range(parquet_dir'[f].columns)
                   display == get_columns_display_schema(parquet_dir', column_metadata', f)
               IN  /\ \A c \in physical : RowsOfKey(column_metadata', f, c) # {}
                   /\ \A r \in RowsOf(column_metadata', f) :
                          r.original_column_name \notin physical => ~r.is_visible
                   /\ display.raised = NULL
                   /\ \A i \in 1..Len(display.columns) :
                          display.columns[i].original_name \in physical
          ELSE column_metadata' = column_metadata]_vars

\* a sync that created the row of a new column and hid the row, visible
\* until then, of a column that left the file
C28_Witness ==
    /\ last.op = "sync"
    /\ last.status = 200
    /\ last.created = 1
    /\ last.hidden = 1
    /\ \E r \in RowsOf(column_metadata, last.filename) :
           /\ r.original_column_name \notin Range(parquet_dir[last.filename].columns)
           /\ r.display_name = "Col A"

----------------------------------------------------------------------------
(* What a sync leaves alone *)

\* the updates of the runs that sync files next to the rows of another file
PreservedUpdates(c) == {[display_name |-> Custom(c), description |-> "d"],
                        [is_visible |-> FALSE],
                        [sort_order |-> MaxSortOrder]}

\* single-column updates of the managed file, the naming of one column under
\* every other filename, syncs and schema changes
NextPreserve ==
    \/ \E f \in ManagedFiles, c \in Cols : \E u \in PreservedUpdates(c) :
           update_column_metadata_admin(f, c, u)
    \/ \E f \in Files \ ManagedFiles :
           update_column_metadata_admin(f, "a", [display_name |-> Custom("a")])
    \/ \E f \in Files : sync_file_columns_admin(f)
    \/ \E f \in Files, s \in Schemas : SchemaChange(f, s)

SpecPreserve == Init /\ [][NextPreserve]_vars

\* C29: a sync leaves the display_name, description and sort_order of every
\* row that existed before it as they were, leaves the is_visible of every
\* such row whose column is still in the physical file as it was, and leaves
\* the rows of every other filename untouched.
C29_SyncPreservesCustomizations ==
    [][(last'.op = "sync")
       => \A r \in column_metadata :
              IF r.filename # last'.filename
              THEN r \in column_metadata'
              ELSE \E r2 \in column_metadata' :
                       /\ r2.id = r.id
                       /\ r2.filename = r.filename
                       /\ r2.original_column_name = r.original_column_name
                       /\ r2.display_name = r.display_name
                       /\ r2.description = r.description
                       /\ r2.sort_order = r.sort_order
                       /\ (/\ parquet_dir[r.filename].exists
                           /\ r.original_column_name \in Range(parquet_dir[r.filename].columns))
                          => r2.is_visible = r.is_visible]_vars

\* a successful sync that hid a column that left the file, next to a row of
\* the same file with a custom name, description and sort order, a hidden row
\* of a column still in the file, and a visible row of another filename for
\* the column that left
C29_Witness ==
    /\ last.op = "sync"
    /\ last.status = 200
    /\ last.hidden = 1
    /\ \E r \in RowsOf(column_metadata, last.filename) :
           /\ r.original_column_name \in Range(parquet_dir[last.filename].columns)
           /\ r.display_name = Custom(r.original_column_name)
           /\ r.description = "d"
           /\ r.sort_order = MaxSortOrder
           /\ ~r.is_visible
    /\ \E r \in column_metadata :
           /\ r.filename # last.filename
           /\ r.original_column_name \notin Range(parquet_dir[last.filename].columns)
           /\ r.is_visible

----------------------------------------------------------------------------
(* The dashboard of the admin panel *)

\* AdminService.get_dashboard_stats: the counts of the dashboard (the last
\* update and the recent activity are left out)
get_dashboard_stats(dir, files) ==
    LET total_files == Cardinality({f \in DOMAIN dir : dir[f].exists})
        files_with_metadata == Cardinality(files)
    IN  [total_files |-> total_files,
         files_with_metadata |-> files_with_metadata,
         files_without_metadata |-> total_files - files_with_metadata]

\* AdminService.get_files_without_metadata: the files of the directory, in
\* the order glob yields them, whose name has no FileMetadata row, newest first
get_files_without_metadata(dir, files, glob_order) ==
    LET files_with_metadata == {m.filename : m \in files}
        entry(f) == [filename |-> f, modified |-> isoformat(dir[f].mtime)]
        files_without_metadata ==
            SelectSeq([i \in 1..Len(glob_order) |-> entry(glob_order[i])],
                      LAMBDA e : e.filename \notin files_with_metadata)
    IN  sorted_by_modified(files_without_metadata)

\* GET /dashboard
get_dashboard_stats_route ==
    /\ last' = [op |-> "dashboard", status |-> 200,
                stats |-> get_dashboard_stats(parquet_dir, file_metadata)]
    /\ Step
    /\ UNCHANGED <<parquet_dir, column_metadata, column_metadata_id_seq,
                   file_metadata, file_metadata_id_seq, metadata_history>>

\* GET /files-without-metadata
get_files_without_metadata_route(glob_order) ==
    /\ last' = [op |-> "files_without_metadata", status |-> 200,
                files |-> get_files_without_metadata(parquet_dir, file_metadata,
                                                     glob_order)]
    /\ Step
    /\ UNCHANGED <<parquet_dir, column_metadata, column_metadata_id_seq,
                   file_metadata, file_metadata_id_seq, metadata_history>>

\* business metadata is created and deleted, for files on disk and for a file
\* that is not, and the dashboard is read
NextDashboard ==
    \/ \E m \in ListedMetadata : create_metadata_route(m)
    \/ \E f \in FileNames : delete_metadata_route(f)
    \/ get_dashboard_stats_route
    \/ \E glob_order \in Orders(OnDisk) : get_files_without_metadata_route(glob_order)

SpecDashboard == InitFiles /\ [][NextDashboard]_vars

\* C30: in every state of the directory and the FileMetadata table,
\* files_without_metadata of get_dashboard_stats is not negative and is the
\* number of entries get_files_without_metadata returns.
C30_DashboardCountsConsistent ==
    LET stats == get_dashboard_stats(parquet_dir, file_metadata)
    IN  /\ stats.files_without_metadata >= 0
        /\ \A glob_order \in Orders(OnDisk) :
               stats.files_without_metadata
                   = Len(get_files_without_metadata(parquet_dir, file_metadata, glob_order))

\* the two counts agree while every FileMetadata row names a file on disk
DashboardCountsAgreeWithoutOrphans ==
    WithMetadata \subseteq OnDisk
        => LET stats == get_dashboard_stats(parquet_dir, file_metadata)
           IN  /\ stats.files_without_metadata >= 0
               /\ \A glob_order \in Orders(OnDisk) :
                      stats.files_without_metadata
                          = Len(get_files_without_metadata(parquet_dir, file_metadata,
                                                           glob_order))
====
